---- MODULE Spec2Model ----
(***************************************************************************)
(* Model of the signage scheduling core of outpost.django.signage:         *)
(*   - the interval resolver of models.py (Schedule.get_active_playlist,   *)
(*     Schedule.get_next_trigger, Power.get_active_state,                  *)
(*     Power.get_next_trigger),                                            *)
(*   - the timer service of management/commands/signage.py (SignageServer),*)
(*   - the sessions of consumers.py (FrontendConsumer, DisplayConsumer),   *)
(*   - the messages of models.py (Playlist.get_message, Page.get_runtime), *)
(*   - the inline formset of forms.py and the cleanup task of tasks.py.    *)
(*                                                                         *)
(* Time is counted in ticks.  An absolute instant is a number of ticks     *)
(* since local midnight of day 0 in the configured zone; an aware datetime *)
(* is an instant together with the zone it is represented in (utc or the   *)
(* configured zone), because the code reads .date() and .time() of the     *)
(* representation it was handed.                                           *)
(***************************************************************************)
EXTENDS Integers, Sequences, FiniteSets, TLC

\* ------------------------------------------------------------------ bounds
\* ticks in one calendar day (times of day are 0 .. TicksPerDay-1)
TicksPerDay == 4
\* offset of the configured zone east of UTC, in ticks
TzOffset == 1

\* the days of the (shortened) week a recurrence rule can name
Weekdays == {0, 1}
WeekLen == Cardinality(Weekdays)

\* ------------------------------------------------------------ result codes
\* "return None" of get_next_trigger / sync_schedule
None == -1
\* min() of an empty sequence raises ValueError
ValueError == -2

Min(S) == CHOOSE x \in S : \A y \in S : x <= y

\* --------------------------------------------------------- aware datetimes
\* timezone.now(): the instant represented in UTC
utcnow(t) == [t |-> t, utc |-> TRUE]
\* timezone.localtime() / tz.localize(...): represented in the configured zone
localtime(t) == [t |-> t, utc |-> FALSE]
\* dt.astimezone(tz)
astimezone(dt) == localtime(dt.t)
\* the wall clock reading of the representation
wall(dt) == IF dt.utc THEN dt.t - TzOffset ELSE dt.t
\* dt.date(), as a day number
date(dt) == wall(dt) \div TicksPerDay
\* dt.time(), as a tick of the day
timeofday(dt) == wall(dt) % TicksPerDay
\* tz.localize(datetime.combine(day, time)), as an absolute instant
localize(day, tod) == day * TicksPerDay + tod

\* ------------------------------------------------------------- recurrences
\* A recurrence rule is a weekly rule: the set of weekdays it names.
\* r.between(today, today, dtstart=today, inc=True) is non-empty
recurrences_between(rec, today) == (today % WeekLen) \in rec

\* r.after(today, inc, dtstart=today, dtend=dtend): the first occurrence after
\* local midnight of `today` (that midnight included when inc).  The rule's
\* occurrences are the midnights of its weekdays from dtstart up to dtend;
\* django-recurrence also adds dtend itself to the occurrence set.
recurrences_after(rec, today, inc, dtend) ==
    LET rule == { d * TicksPerDay : d \in { e \in today .. (today + WeekLen) :
                      /\ (e % WeekLen) \in rec
                      /\ (dtend = None \/ e * TicksPerDay <= dtend) } }
        occ  == rule \cup (IF dtend = None THEN {} ELSE {dtend})
        sel  == { x \in occ : x > today * TicksPerDay
                              \/ (inc /\ x = today * TicksPerDay) }
    IN IF sel = {} THEN None ELSE Min(sel)

\* ----------------------------------------------------------------- Schedule
\* range__contains=dt on a '[)' range; an upper bound of None is unbounded
range_contains(s, t) == s.lower <= t /\ (s.upper = None \/ t < s.upper)

\* order_by("start", "stop")
start_stop_le(a, b) == a.start < b.start \/ (a.start = b.start /\ a.stop <= b.stop)

\* Schedule.get_active_playlist(now): the playlists the call can return (more
\* than one only when the database order of equal (start, stop) rows decides)
get_active_playlist(items, default, now) ==
    LET dt    == astimezone(now)
        qs    == { s \in items : range_contains(s, dt.t) /\ s.stop > timeofday(dt) }
        today == date(now)
        hits  == { s \in qs : recurrences_between(s.rec, today)
                              /\ s.start <= timeofday(dt) }
        first == { s \in hits : \A o \in hits : start_stop_le(s, o) }
    IN IF hits = {} THEN {default} ELSE { s.playlist : s \in first }

\* the TriggerCandidate list built by Schedule.get_next_trigger(after)
schedule_candidates(items, after) ==
    LET qs    == { s \in items : s.upper # None /\ s.upper > after.t }
        today == date(after)
        r(s)  == recurrences_after(s.rec, today, s.stop > timeofday(after), s.upper)
    IN { [start |-> localize(r(s) \div TicksPerDay, s.start),
          end   |-> localize(r(s) \div TicksPerDay, s.stop)] :
         s \in { x \in qs : r(x) # None } }

\* variant of pick_trigger that keys min() on the window end
pick_trigger_earliest_end(candidates, after) ==
    LET live  == { c \in candidates : c.end >= after.t }
        first == { c \in live : \A o \in live : c.end <= o.end }
    IN IF candidates = {} THEN {None}
       ELSE IF live = {} THEN {ValueError}
       ELSE { IF c.start <= after.t /\ c.end >= after.t THEN c.end ELSE c.start :
              c \in first }

\* the tail of both get_next_trigger methods: pick the candidate and its edge
pick_trigger(candidates, after) ==
    LET live  == { c \in candidates : c.end >= after.t }
        first == { c \in live : \A o \in live : c.start <= o.start }
    IN IF candidates = {} THEN {None}
       ELSE IF live = {} THEN {ValueError}
       ELSE { IF c.start <= after.t /\ c.end >= after.t THEN c.end ELSE c.start :
              c \in first }

\* Schedule.get_next_trigger(after): the values the call can return
schedule_get_next_trigger(items, after) ==
    pick_trigger(schedule_candidates(items, after), after)

\* -------------------------------------------------------------------- Power
\* variant of get_active_state that takes the date of `now` as handed in
get_active_state_nowdate(items, now) ==
    LET dt    == astimezone(now)
        qs    == { p \in items : p.on <= timeofday(dt) /\ p.off > timeofday(dt) }
        today == date(now)
    IN \E p \in qs : recurrences_between(p.rec, today)

\* Power.get_active_state(now)
get_active_state(items, now) ==
    LET dt    == astimezone(now)
        qs    == { p \in items : p.on <= timeofday(dt) /\ p.off > timeofday(dt) }
        today == date(dt)
    IN \E p \in qs : recurrences_between(p.rec, today)

\* variant of power_candidates that never includes today's occurrence
power_candidates_noinc(items, after) ==
    LET dt    == astimezone(after)
        today == date(dt)
        r(s)  == recurrences_after(s.rec, today, FALSE, None)
    IN { [start |-> localize(r(s) \div TicksPerDay, s.on),
          end   |-> localize(r(s) \div TicksPerDay, s.off)] :
         s \in { x \in items : r(x) # None } }

\* the TriggerCandidate list built by Power.get_next_trigger(after)
power_candidates(items, after) ==
    LET dt    == astimezone(after)
        today == date(dt)
        r(s)  == recurrences_after(s.rec, today, s.off > timeofday(after), None)
    IN { [start |-> localize(r(s) \div TicksPerDay, s.on),
          end   |-> localize(r(s) \div TicksPerDay, s.off)] :
         s \in { x \in items : r(x) # None } }

\* Power.get_next_trigger(after): the values the call can return
power_get_next_trigger(items, after) ==
    pick_trigger(power_candidates(items, after), after)

\* ------------------------------------------------------------------- state
VARIABLES
    scheduleitem_set,   \* the ScheduleItem rows of the Schedule
    sdefault,           \* Schedule.default, a playlist id
    poweritem_set,      \* the PowerItem rows of the Power
    arg,                \* the argument of a call: an aware datetime, the forms of an edit
    ret,                \* the last resolver call and what it returned
    clock,              \* the current instant
    server,             \* SignageServer: "down", "running" or "crashed"
    jobs,               \* the scheduler's job store: the pending timers
    schedules,          \* SignageServer.schedules: Schedule pk -> job id
    powers,             \* SignageServer.powers: Power pk -> job id
    running,            \* timer callbacks (schedule / power coroutines) in progress
    handler,            \* where SignageServer.handle is
    control,            \* messages waiting on the scheduler's control channel
    ops,                \* how many edits and publishes the operator has made
    unpublished,        \* kinds of entity edited since their last handled publish
    session,            \* the frontend session: state, group membership, inbox, shown
    lastfire,           \* what the last Schedule timer callback of this instant did
    lastpublish,        \* what the last publish handled in this instant did
    before,             \* the Schedule's items and default before the unpublished edit
    logged,             \* logged in this instant: a dropped control message, a callback that raised
    display,            \* the Display row a connection names
    frontend,           \* the FrontendConsumer of a connection, step by step
    powerlink,          \* the DisplayConsumer of a connection
    sends,              \* how many group messages have been sent to the channels
    playlist_set,       \* the Playlist rows: pk -> its PlaylistItems in order
    second              \* the FrontendConsumer of a second connection of the Display

dbvars == <<scheduleitem_set, sdefault, poweritem_set>>
callvars == <<arg, ret>>
timervars == <<jobs, schedules, powers>>
histvars == <<lastfire, lastpublish, before, logged>>
svcvars == <<clock, server, jobs, schedules, powers, running, handler, control,
             ops, unpublished, session, lastfire, lastpublish, before, logged>>
sessvars == <<display, frontend, powerlink, sends, playlist_set, second>>
vars == <<scheduleitem_set, sdefault, poweritem_set, arg, ret, clock, server, jobs,
          schedules, powers, running, handler, control, ops, unpublished, session,
          lastfire, lastpublish, before, logged, display, frontend, powerlink, sends,
          playlist_set, second>>

TimesOfDay == 0 .. (TicksPerDay - 1)
Recurrences == SUBSET Weekdays
\* playlist ids: the default playlist and the playlists of the two items
DefaultPlaylist == 1
PlaylistA == 2
PlaylistB == 3

\* Page.runtime, its default of 20 seconds
DefaultRuntime == 20
\* what PDFPage.page_runtime holds: null, zero seconds, five seconds
PageRuntimes == {None, 0, 5}
\* how many PDFPageRender rows a PDFPage has: PDFValidator lets 1 to 40 pass
RenderCounts == {1, 10}
\* Page rows by real class: the classes other than WeatherPage and PDFPage
\* build their message the way HTMLPage does
HTMLPage == [id |-> 1, kind |-> "HTML", runtime |-> DefaultRuntime,
             page_runtime |-> None, renders |-> 0]
WeatherPage == [id |-> 2, kind |-> "Weather", runtime |-> DefaultRuntime,
                page_runtime |-> None, renders |-> 0]
PDFPages == [id : {3}, kind : {"PDF"}, runtime : {DefaultRuntime},
             page_runtime : PageRuntimes, renders : RenderCounts]

\* range bounds used for items: the middle of day 0, the middle of day 1
MidDay0 == TicksPerDay \div 2
MidDay1 == TicksPerDay + TicksPerDay \div 2
EndDay1 == 2 * TicksPerDay

\* ScheduleItem.clean accepts exactly start <= stop
clean(s) == ~(s.start > s.stop)

\* a first item with any window, rule and range
ScheduleItemsA ==
    { s \in [lower : {0, MidDay0}, upper : {None, MidDay1}, start : TimesOfDay,
             stop : TimesOfDay, rec : Recurrences, playlist : {PlaylistA}] : clean(s) }
\* a second item that recurs every day until the end of day 1
ScheduleItemsB ==
    { s \in [lower : {0}, upper : {EndDay1}, start : TimesOfDay,
             stop : TimesOfDay, rec : {Weekdays}, playlist : {PlaylistB}] : clean(s) }
\* PowerItem has no validation: on and off are any two times
PowerItemsA == [on : TimesOfDay, off : TimesOfDay, rec : Recurrences]
PowerItemsB == [on : TimesOfDay, off : TimesOfDay, rec : {Weekdays}]

\* the instants of one week, in either representation
QueryInstants == 0 .. (WeekLen * TicksPerDay - 1)
QueryArgs == { utcnow(t) : t \in QueryInstants } \cup { localtime(t) : t \in QueryInstants }

\* no resolver call has been made
NoCall == [op |-> "none", val |-> None]

\* ---------------------------------------------------- service: constants
\* the last instant the clock reaches: the end of day 1
MaxClock == 2 * TicksPerDay
\* the primary key of the one Schedule row and of the one Power row
pk == 1
\* a primary key no Schedule and no Power row has
UnknownPk == 2
\* how many edits the operator makes, and how many messages are put on the
\* scheduler's control channel
MaxEdits == 1
MaxPublishes == 1
\* job_defaults["misfire_grace_time"]: how late a timer may still be run
misfire_grace_time == 1

\* a dict without entries
EmptyDict == [k \in {} |-> None]
\* handle() waiting in channel_layer.receive
Receiving == [pc |-> "receive"]
\* the frontend session before its websocket connects
NoSession == [state |-> "Connecting", joined |-> FALSE, inbox |-> <<>>, shown |-> None]
NoFire == [after |-> None]
NoPublish == [kind |-> "none"]
\* nothing has been logged: no dropped control message, no callback that
\* raised, no power message sent by a timer callback
NothingLogged == [dropped |-> "none", raised |-> "none",
                  power |-> [sent |-> "none", after |-> None]]

\* the config column of a Display row before a client has reported one
StoredConfig == "config 0"
\* the cache has no entry under the Display's screenshot key
NoScreenshot == "no entry"

\* a consumer before its websocket connects: its state, why it closed, how
\* its disconnect() ended, its group membership, the group messages waiting
\* for it and what it has sent to the client; a power link also how many
\* client messages it has received
NoFrontend == [state |-> "Connecting", cause |-> "none", closing |-> "none",
               joined |-> FALSE, inbox |-> <<>>, out |-> <<>>, received |-> <<>>]
NoPowerLink == [state |-> "Connecting", cause |-> "none", closing |-> "none",
                joined |-> FALSE, inbox |-> <<>>, out |-> <<>>, messages |-> 0]
\* an enabled Display with a Schedule and a Power, and no connection yet
SessionsIdle ==
    /\ display = [exists |-> TRUE, enabled |-> TRUE, schedule |-> pk, power |-> pk,
                  connected |-> None, config |-> StoredConfig,
                  screenshot |-> NoScreenshot]
    /\ frontend = NoFrontend
    /\ second = NoFrontend
    /\ powerlink = NoPowerLink
    /\ sends = 0
    /\ playlist_set = [p \in {DefaultPlaylist, PlaylistA, PlaylistB} |->
                          <<[page |-> HTMLPage, enabled |-> TRUE]>>]

\* the state of everything outside the database before the service starts
ServiceDown ==
    /\ server = "down"
    /\ jobs = {}
    /\ schedules = EmptyDict
    /\ powers = EmptyDict
    /\ running = {}
    /\ handler = [pc |-> "init"]
    /\ control = <<>>
    /\ ops = [edits |-> 0, publishes |-> 0]
    /\ unpublished = {}
    /\ session = NoSession
    /\ lastfire = NoFire
    /\ lastpublish = NoPublish
    /\ logged = NothingLogged

\* ------------------------------------------------- resolver specification
\* The resolver methods are pure functions of the rows and the instant: the
\* initial states enumerate the rows and the instant, the actions call them.
InitResolver ==
    /\ clock = 0
    /\ ServiceDown
    /\ sdefault = DefaultPlaylist
    /\ arg \in QueryArgs
    /\ ret = NoCall
    /\ \/ /\ \E a \in ScheduleItemsA :
               \/ scheduleitem_set = {a}
               \/ \E b \in ScheduleItemsB : scheduleitem_set = {a, b}
          /\ poweritem_set = {}
       \/ /\ scheduleitem_set = {}
          /\ \/ poweritem_set = {}
             \/ \E a \in PowerItemsA :
                  \/ poweritem_set = {a}
                  \/ \E b \in PowerItemsB : poweritem_set = {a, b}
    /\ before = [items |-> scheduleitem_set, default |-> sdefault]
    /\ SessionsIdle

CallGetActivePlaylist ==
    /\ ret = NoCall /\ scheduleitem_set # {}
    /\ \E p \in get_active_playlist(scheduleitem_set, sdefault, arg) :
         ret' = [op |-> "get_active_playlist", val |-> p]
    /\ UNCHANGED <<scheduleitem_set, sdefault, poweritem_set, arg>>
    /\ UNCHANGED <<svcvars, sessvars>>

CallScheduleGetNextTrigger ==
    /\ ret = NoCall /\ scheduleitem_set # {}
    /\ \E n \in schedule_get_next_trigger(scheduleitem_set, arg) :
         ret' = [op |-> "schedule_get_next_trigger", val |-> n]
    /\ UNCHANGED <<scheduleitem_set, sdefault, poweritem_set, arg>>
    /\ UNCHANGED <<svcvars, sessvars>>

CallGetActiveState ==
    /\ ret = NoCall /\ scheduleitem_set = {}
    /\ ret' = [op |-> "get_active_state", val |-> get_active_state(poweritem_set, arg)]
    /\ UNCHANGED <<scheduleitem_set, sdefault, poweritem_set, arg>>
    /\ UNCHANGED <<svcvars, sessvars>>

CallPowerGetNextTrigger ==
    /\ ret = NoCall /\ scheduleitem_set = {}
    /\ \E n \in power_get_next_trigger(poweritem_set, arg) :
         ret' = [op |-> "power_get_next_trigger", val |-> n]
    /\ UNCHANGED <<scheduleitem_set, sdefault, poweritem_set, arg>>
    /\ UNCHANGED <<svcvars, sessvars>>

NextResolver ==
    \/ CallGetActivePlaylist
    \/ CallScheduleGetNextTrigger
    \/ CallGetActiveState
    \/ CallPowerGetNextTrigger

SpecResolver == InitResolver /\ [][NextResolver]_vars

\* ------------------------------------------------------ resolver properties
\* the local calendar day and the local time of day of an instant
LocalDay(t) == t \div TicksPerDay
LocalTime(t) == t % TicksPerDay
\* how far ahead "every later instant" is examined: two weeks
Horizon == 2 * WeekLen * TicksPerDay

IsInstant(v) == v >= 0

\* the active playlist at instant u, asked in the configured zone
PlaylistAt(u) == get_active_playlist(scheduleitem_set, sdefault, localtime(u))
\* the power state at instant u, asked in the configured zone
StateAt(u) == get_active_state(poweritem_set, localtime(u))

\* C1: Schedule.get_next_trigger(t), t in the configured zone: the active
\* playlist is the same at every instant of [t, n) when it returns n, and at
\* every instant >= t when it returns none.
C1_NoPlaylistChangeBeforeTrigger ==
    (ret.op = "schedule_get_next_trigger" /\ ~arg.utc) =>
        /\ IsInstant(ret.val) =>
             \A u \in arg.t .. (ret.val - 1) : PlaylistAt(u) = PlaylistAt(arg.t)
        /\ ret.val = None =>
             \A u \in arg.t .. (arg.t + Horizon) : PlaylistAt(u) = PlaylistAt(arg.t)

\* the items that are in range, recur on the local date and whose daily
\* window holds the local time of day
ActiveItems(items, t) ==
    { s \in items : /\ s.lower <= t /\ (s.upper = None \/ t < s.upper)
                    /\ (LocalDay(t) % WeekLen) \in s.rec
                    /\ s.start <= LocalTime(t) /\ LocalTime(t) < s.stop }

\* C6: get_active_playlist(now) returns the playlist of the item with the
\* smallest (start, stop) among the items active at now (range, recurrence on
\* the local date, daily window), and the default when there is none.
C6_ActivePlaylistIsFirstActiveItem ==
    ret.op = "get_active_playlist" =>
        LET m == ActiveItems(scheduleitem_set, arg.t)
        IN IF m = {} THEN ret.val = sdefault
           ELSE \E s \in m : /\ \A o \in m : start_stop_le(s, o)
                             /\ ret.val = s.playlist

\* C7: get_active_state(now) is true iff some PowerItem has on <= local time
\* of day < off and recurs on the local date.
C7_ActiveStateIffItemOn ==
    ret.op = "get_active_state" =>
        (ret.val <=> \E p \in poweritem_set :
                        /\ p.on <= LocalTime(arg.t) /\ LocalTime(arg.t) < p.off
                        /\ (LocalDay(arg.t) % WeekLen) \in p.rec)

\* C7 witness: the call answered false in the gap between two windows of the
\* same day
C7_Witness ==
    /\ ret.op = "get_active_state" /\ ret.val = FALSE
    /\ \E a, b \in poweritem_set :
         /\ a.on < a.off /\ a.off <= LocalTime(arg.t)
         /\ LocalTime(arg.t) < b.on /\ b.on < b.off
         /\ (LocalDay(arg.t) % WeekLen) \in (a.rec \cap b.rec)

\* C8: Power.get_next_trigger(t), t in the configured zone: the power state is
\* constant on [t, n) when it returns n, and from t on when it returns none.
C8_NoStateChangeBeforeTrigger ==
    (ret.op = "power_get_next_trigger" /\ ~arg.utc) =>
        /\ IsInstant(ret.val) =>
             \A u \in arg.t .. (ret.val - 1) : StateAt(u) = StateAt(arg.t)
        /\ ret.val = None =>
             \A u \in arg.t .. (arg.t + Horizon) : StateAt(u) = StateAt(arg.t)

\* C8 witness: two items whose windows overlap on the day of the call, the
\* call made inside the first window, and a trigger more than a tick ahead
C8_Witness ==
    /\ ret.op = "power_get_next_trigger" /\ ~arg.utc
    /\ IsInstant(ret.val) /\ ret.val > arg.t + 1
    /\ \E a, b \in poweritem_set :
         /\ a # b
         /\ a.on <= LocalTime(arg.t) /\ LocalTime(arg.t) < a.off
         /\ a.on < b.on /\ b.on <= a.off /\ b.on < b.off
         /\ (LocalDay(arg.t) % WeekLen) \in (a.rec \cap b.rec)

\* the candidates of the call recorded in ret that have not elapsed
LiveCandidates ==
    LET cands == IF ret.op = "schedule_get_next_trigger"
                 THEN schedule_candidates(scheduleitem_set, arg)
                 ELSE power_candidates(poweritem_set, arg)
    IN { c \in cands : c.end >= arg.t }

\* C9: both get_next_trigger methods select, among the candidates that have
\* not elapsed, one with the earliest start, and return its end when the
\* window contains `after` and its start otherwise.
C9_EarliestStartThenEdge ==
    (ret.op \in {"schedule_get_next_trigger", "power_get_next_trigger"}
     /\ LiveCandidates # {}) =>
        \E c \in LiveCandidates :
            /\ \A o \in LiveCandidates : c.start <= o.start
            /\ ret.val = IF c.start <= arg.t /\ arg.t <= c.end THEN c.end ELSE c.start

\* C9 witness: two live candidates with different starts, the earlier one
\* contains `after`, its end is returned although the other one ends sooner
C9_Witness ==
    /\ ret.op \in {"schedule_get_next_trigger", "power_get_next_trigger"}
    /\ \E c, o \in LiveCandidates :
         /\ c.start < o.start /\ o.end < c.end
         /\ c.start <= arg.t /\ arg.t < o.start
         /\ ret.val = c.end

\* C10: for a Schedule whose only item has an unbounded range and is active
\* at `after` (asked in the configured zone), get_next_trigger returns the end
\* of the running window, that day's stop.
C10_UnboundedItemGivesWindowEnd ==
    (/\ ret.op = "schedule_get_next_trigger" /\ ~arg.utc
     /\ \E s \in scheduleitem_set : s.upper = None
     /\ Cardinality(scheduleitem_set) = 1
     /\ ActiveItems(scheduleitem_set, arg.t) # {}) =>
        \E s \in scheduleitem_set : ret.val = localize(LocalDay(arg.t), s.stop)

\* the values a second call returns when it is handed the trigger in ret,
\* which is an instant of the configured zone (tz.localize)
NextTriggerAgain ==
    IF ret.op = "schedule_get_next_trigger"
    THEN schedule_get_next_trigger(scheduleitem_set, localtime(ret.val))
    ELSE power_get_next_trigger(poweritem_set, localtime(ret.val))

\* C11: get_next_trigger is monotonic for Schedule and Power: a returned
\* trigger n is strictly later than the instant t it was asked for, and the
\* call for n returns none or an instant strictly later than n.
C11_NextTriggerStrictlyLater ==
    (ret.op \in {"schedule_get_next_trigger", "power_get_next_trigger"}
     /\ IsInstant(ret.val)) =>
        /\ ret.val > arg.t
        /\ \A m \in NextTriggerAgain : m = None \/ m > ret.val

\* ------------------------------------------------------- service: helpers
\* the rows the service runs are started with: no items, or one item that
\* recurs every day, starts at tick 1 and stops at the last tick of the day
ServiceScheduleItems ==
    [lower : {0}, upper : {None, MidDay1, EndDay1}, start : {1},
     stop : {TicksPerDay - 1}, rec : {Weekdays}, playlist : {PlaylistA}]
ServicePowerItems == [on : {1}, off : {TicksPerDay - 1}, rec : {Weekdays}]
ServiceScheduleRows == {{}} \cup { {s} : s \in ServiceScheduleItems }
ServicePowerRows == {{}} \cup { {p} : p \in ServicePowerItems }

\* d[k] = v
DictSet(dict, k, v) == [x \in (DOMAIN dict) \cup {k} |-> IF x = k THEN v ELSE dict[x]]
\* del d[k]
DictDel(dict, k) == [x \in (DOMAIN dict) \ {k} |-> dict[x]]

\* job ids that a handle still refers to
UsedIds ==
    { j.id : j \in jobs } \cup { schedules[k] : k \in DOMAIN schedules }
                          \cup { powers[k] : k \in DOMAIN powers }
\* scheduler.add_job gives the job a fresh id
NewId == Min({ i \in 1 .. (Cardinality(UsedIds) + 1) : i \notin UsedIds })
\* scheduler.add_job(callback, "date", run_date=trigger,
\*                   kwargs={schedule | power: the object, after: trigger}).
\* The Schedule object keeps the default playlist it was loaded with; its
\* items, and a Power's items, are queried again at every use.
add_job(kind, trigger, default) ==
    [id |-> NewId, kind |-> kind, run_date |-> trigger, after |-> trigger,
     default |-> default]
\* the pending timers of one kind of entity
PendingTimers(kind) == { j \in jobs : j.kind = kind }

\* channel_layer.group_send(schedule.channel, msg): one copy per joined session
group_send(sess, msg) ==
    IF sess.joined THEN [sess EXCEPT !.inbox = Append(@, msg)] ELSE sess
playlist_update(p) == [type |-> "playlist.update", playlist |-> p]
power_message(state) == [type |-> IF state THEN "power.on" ELSE "power.off"]

\* the process ends: the in-memory job store, the maps and the tasks are gone
Crash ==
    /\ server' = "crashed"
    /\ jobs' = {}
    /\ schedules' = EmptyDict
    /\ powers' = EmptyDict
    /\ running' = {}
    /\ handler' = [pc |-> "dead"]

\* --------------------------------------------------------- service: Init
Init ==
    /\ clock = 0
    /\ ServiceDown
    /\ sdefault = DefaultPlaylist
    /\ scheduleitem_set \in ServiceScheduleRows
    /\ poweritem_set \in ServicePowerRows
    /\ arg = localtime(0)
    /\ ret = NoCall
    /\ before = [items |-> scheduleitem_set, default |-> sdefault]
    /\ SessionsIdle

\* -------------------------------------------------- SignageServer.__init__
\* variant of Startup that arms the Power's timer at the Schedule's trigger
Startup_one_trigger ==
    /\ server = "down"
    /\ \E n \in schedule_get_next_trigger(scheduleitem_set, utcnow(clock)),
          m \in power_get_next_trigger(poweritem_set, utcnow(clock)) :
         IF n = ValueError \/ m = ValueError
         THEN Crash
         ELSE LET sj == [id |-> 1, kind |-> "schedule", run_date |-> n, after |-> n,
                         default |-> sdefault]
                  pj == [id |-> 2, kind |-> "power", run_date |-> n, after |-> n,
                         default |-> None]
              IN /\ jobs' = (IF n = None THEN {} ELSE {sj})
                              \cup (IF n = None THEN {} ELSE {pj})
                 /\ schedules' = IF n = None THEN EmptyDict ELSE DictSet(EmptyDict, pk, sj.id)
                 /\ powers' = IF n = None THEN EmptyDict ELSE DictSet(EmptyDict, pk, pj.id)
                 /\ server' = "running"
                 /\ running' = {}
                 /\ handler' = [pc |-> "broadcast"]
    /\ UNCHANGED <<dbvars, callvars, sessvars, clock, control, ops, unpublished, session, histvars>>

\* Arms one timer per Schedule and per Power that has a next trigger; the
\* triggers are computed for timezone.now().  An exception ends the command.
Startup ==
    /\ server = "down"
    /\ \E n \in schedule_get_next_trigger(scheduleitem_set, utcnow(clock)),
          m \in power_get_next_trigger(poweritem_set, utcnow(clock)) :
         IF n = ValueError \/ m = ValueError
         THEN Crash
         ELSE LET sj == [id |-> 1, kind |-> "schedule", run_date |-> n, after |-> n,
                         default |-> sdefault]
                  pj == [id |-> 2, kind |-> "power", run_date |-> m, after |-> m,
                         default |-> None]
              IN /\ jobs' = (IF n = None THEN {} ELSE {sj})
                              \cup (IF m = None THEN {} ELSE {pj})
                 /\ schedules' = IF n = None THEN EmptyDict ELSE DictSet(EmptyDict, pk, sj.id)
                 /\ powers' = IF m = None THEN EmptyDict ELSE DictSet(EmptyDict, pk, pj.id)
                 /\ server' = "running"
                 /\ running' = {}
                 /\ handler' = [pc |-> "broadcast"]
    /\ UNCHANGED <<dbvars, callvars, sessvars, clock, control, ops, unpublished, session, histvars>>

\* ------------------------------------- SignageServer.handle, before the loop
\* Sends the current playlist to the Schedule's channel and the current power
\* state to s.channel, which is the Schedule's channel as well.
BroadcastCurrent ==
    /\ server = "running" /\ handler.pc = "broadcast"
    /\ \E p \in get_active_playlist(scheduleitem_set, sdefault, localtime(clock)) :
         session' = group_send(group_send(session, playlist_update(p)),
                       power_message(get_active_state(poweritem_set, localtime(clock))))
    /\ handler' = Receiving
    /\ UNCHANGED <<dbvars, callvars, sessvars, clock, server, timervars, running, control, ops,
                   unpublished, histvars>>

\* ------------------------------------------------------------- the clock
\* Time passes.  The service is started at the first instant; while it runs,
\* a due timer fires before its grace time is over, and callbacks, control
\* messages and channel messages are processed within the tick.  The records
\* of what was done are kept for the instant it was done in.
Tick ==
    /\ clock < MaxClock
    /\ server # "down"
    /\ server = "running" =>
          /\ \A j \in jobs : j.run_date + misfire_grace_time > clock
          /\ running = {}
          /\ handler.pc = "receive"
          /\ control = <<>>
    /\ session.inbox = <<>>
    /\ clock' = clock + 1
    /\ lastfire' = NoFire
    /\ lastpublish' = NoPublish
    /\ logged' = NothingLogged
    /\ UNCHANGED <<dbvars, callvars, sessvars, server, timervars, running, handler, control, ops,
                   unpublished, session, before>>

\* ------------------------------------------------------------ timer fire
\* The scheduler takes a due date job out of the store and starts its
\* coroutine (SignageServer.schedule or SignageServer.power) with the job's
\* kwargs.
TimerFire ==
    /\ server = "running"
    /\ \E j \in jobs :
         /\ j.run_date <= clock
         /\ jobs' = jobs \ {j}
         /\ running' = running \cup {[kind |-> j.kind, after |-> j.after,
                                      run_date |-> j.run_date, default |-> j.default,
                                      pc |-> "sync"]}
    /\ UNCHANGED <<dbvars, callvars, sessvars, clock, server, schedules, powers, handler, control,
                   ops, unpublished, session, histvars>>

\* what a completed Schedule callback did: the playlist it sent (None when it
\* sent nothing), the playlists active at `after`, the trigger it computed and
\* the run time of the timer it armed (None when it armed none)
FireRecord(after, sent, wanted, next, armed) ==
    [after |-> after, sent |-> sent, wanted |-> wanted, next |-> next, armed |-> armed]

\* when a callback ran: the run time of its timer and the instant it ran at
FireTimes(run_date, at) == [run_date |-> run_date, at |-> at]

\* SignageServer.sync_schedule(schedule, after), run by a timer callback
FireSyncSchedule ==
    \E t \in running :
      /\ t.kind = "schedule" /\ t.pc = "sync"
      /\ LET wanted == get_active_playlist(scheduleitem_set, sdefault, localtime(t.after))
             times  == FireTimes(t.run_date, clock)
         IN \E n \in schedule_get_next_trigger(scheduleitem_set, localtime(t.after)) :
              IF n = ValueError
              THEN \* the job raised: apscheduler logs it
                   /\ running' = running \ {t}
                   /\ lastfire' = FireRecord(t.after, None, wanted, n, None) @@ times
                   /\ logged' = [logged EXCEPT !.raised = "schedule"]
                   /\ UNCHANGED <<jobs, schedules>>
              ELSE IF n = None
              THEN /\ schedules' = DictDel(schedules, pk)
                   /\ running' = running \ {t}
                   /\ lastfire' = FireRecord(t.after, None, wanted, n, None) @@ times
                   /\ UNCHANGED <<jobs, logged>>
              ELSE \E p \in get_active_playlist(scheduleitem_set, t.default,
                                                  localtime(t.after)) :
                   /\ jobs' = jobs \cup {add_job("schedule", n, t.default)}
                   /\ schedules' = DictSet(schedules, pk, NewId)
                   /\ running' = (running \ {t}) \cup
                          {[kind |-> "schedule", after |-> t.after, pc |-> "send",
                            p |-> p, wanted |-> wanted, next |-> n, armed |-> n,
                            times |-> times]}
                   /\ UNCHANGED <<lastfire, logged>>
      /\ UNCHANGED <<dbvars, callvars, sessvars, clock, server, powers, handler, control, ops,
                     unpublished, session, lastpublish, before>>

\* SignageServer.schedule after sync_schedule returned a playlist: group_send
FireSendSchedule ==
    \E t \in running :
      /\ t.kind = "schedule" /\ t.pc = "send"
      /\ session' = group_send(session, playlist_update(t.p))
      /\ running' = running \ {t}
      /\ lastfire' = FireRecord(t.after, t.p, t.wanted, t.next, t.armed) @@ t.times
      /\ UNCHANGED <<dbvars, callvars, sessvars, clock, server, timervars, handler, control, ops,
                     unpublished, lastpublish, before, logged>>

\* SignageServer.sync_power(power, after), run by a timer callback; without a
\* trigger, trigger.astimezone raises and the job ends there
FireSyncPower ==
    \E t \in running :
      /\ t.kind = "power" /\ t.pc = "sync"
      /\ \E n \in power_get_next_trigger(poweritem_set, localtime(t.after)) :
           IF n = ValueError \/ n = None
           THEN \* the job raised: apscheduler logs it
                /\ running' = running \ {t}
                /\ logged' = [logged EXCEPT !.raised = "power"]
                /\ UNCHANGED <<jobs, powers>>
           ELSE /\ jobs' = jobs \cup {add_job("power", n, None)}
                /\ powers' = DictSet(powers, pk, NewId)
                /\ running' = (running \ {t}) \cup
                       {[kind |-> "power", after |-> t.after, pc |-> "send",
                         p |-> get_active_state(poweritem_set, localtime(t.after))]}
                /\ UNCHANGED logged
      /\ UNCHANGED <<dbvars, callvars, sessvars, clock, server, schedules, handler, control, ops,
                     unpublished, session, lastfire, lastpublish, before>>

\* SignageServer.power after sync_power: group_send to the Power's channel
\* (no frontend session is a member of it)
FireSendPower ==
    \E t \in running :
      /\ t.kind = "power" /\ t.pc = "send"
      /\ running' = running \ {t}
      /\ logged' = [logged EXCEPT !.power = [sent |-> power_message(t.p).type,
                                             after |-> t.after]]
      /\ UNCHANGED <<dbvars, callvars, sessvars, clock, server, timervars, handler, control, ops,
                     unpublished, session, lastfire, lastpublish, before>>

\* --------------------------------------------------- the control channel
\* what a handled publish did: whether a timer callback of the entity was
\* executing when it began, whether job.remove() raised JobLookupError,
\* whether a later step raised, the id of the timer it installed, and the map
\* entry and the number of pending timers of the entity when it ended
PublishRecord(kind, overlap, cancel_failed, raised, installed, entry, pending) ==
    [kind |-> kind, overlap |-> overlap, cancel_failed |-> cancel_failed,
     raised |-> raised, installed |-> installed, entry |-> entry, pending |-> pending]

\* more of what a handled publish did: the instant it was handled at, the
\* trigger get_next_trigger returned for it, the run time of the timer it
\* installed, whether the timer the map named was still pending after the
\* cancel step, the
\* playlist it sent (None when it sent nothing), the playlists active at that
\* instant, whether the last edit changed the active playlist, and whether
\* the timers of the other entities were left alone
PublishOutcome(now, trigger, at, prev_pending, sent, wanted, changed, others_kept) ==
    [now |-> now, trigger |-> trigger, at |-> at, prev_pending |-> prev_pending,
     sent |-> sent, wanted |-> wanted, changed |-> changed, others_kept |-> others_kept]

\* the run time of the pending timer with the given id, None without one
RunDateOf(id) ==
    IF \E j \in jobs : j.id = id THEN (CHOOSE j \in jobs : j.id = id).run_date ELSE None

\* the timers of the entities of the other kinds are the same after the step
OthersKept(kind) == { j \in jobs' : j.kind # kind } = { j \in jobs : j.kind # kind }

\* the control messages handle() has no handler or no row for: no type, the
\* type ping, a Schedule or a Power that does not exist
OtherMessages ==
    { [schedule |-> pk], [type |-> "ping"],
      [type |-> "schedule", pk |-> UnknownPk], [type |-> "power", pk |-> UnknownPk] }

\* handle(): "continue" for a message without a type or without a handler,
\* handle_schedule / handle_power: "return" on DoesNotExist; all are logged
Dropped(msg) ==
    \/ "type" \notin DOMAIN msg
    \/ msg.type \notin {"schedule", "power"}
    \/ msg.pk # pk

\* variant of Receive whose handlers do not remove the entity's timer
Receive_no_remove ==
    /\ server = "running" /\ handler.pc = "receive" /\ control # <<>>
    /\ LET msg == Head(control)
       IN /\ control' = Tail(control)
          /\ IF Dropped(msg)
             THEN /\ logged' = [logged EXCEPT !.dropped =
                                   IF "type" \in DOMAIN msg THEN msg.type ELSE "no type"]
                  /\ UNCHANGED <<server, jobs, schedules, powers, running, handler,
                                 lastpublish>>
             ELSE /\ handler' = [pc |-> "sync", kind |-> msg.type, after |-> clock,
                                 overlap |-> \E t \in running : t.kind = msg.type,
                                 prev_pending |-> \E j \in jobs : j.kind = msg.type]
                  /\ UNCHANGED <<server, jobs, schedules, powers, running, lastpublish,
                                 logged>>
    /\ UNCHANGED <<dbvars, callvars, sessvars, clock, ops, unpublished, session, lastfire, before>>

\* variant of Receive that starts a handler for every message that has a type
Receive_any_type ==
    /\ server = "running" /\ handler.pc = "receive" /\ control # <<>>
    /\ LET msg == Head(control)
       IN /\ control' = Tail(control)
          /\ IF "type" \notin DOMAIN msg
             THEN /\ logged' = [logged EXCEPT !.dropped = "no type"]
                  /\ UNCHANGED <<server, jobs, schedules, powers, running, handler,
                                 lastpublish>>
             ELSE /\ jobs' = { j \in jobs : j.kind # msg.type }
                  /\ handler' = [pc |-> "sync", kind |-> msg.type, after |-> clock,
                                 overlap |-> \E t \in running : t.kind = msg.type,
                                 prev_pending |-> FALSE]
                  /\ UNCHANGED <<server, schedules, powers, running, lastpublish, logged>>
    /\ UNCHANGED <<dbvars, callvars, sessvars, clock, ops, unpublished, session, lastfire, before>>

\* handle(): receive a message and drop it, or handle_schedule / handle_power
\* up to their await: look the row up, remove the timer the map names.
\* job.remove() of a job that is no longer in the store raises JobLookupError,
\* which ends handle().
Receive ==
    /\ server = "running" /\ handler.pc = "receive" /\ control # <<>>
    /\ LET msg == Head(control)
       IN /\ control' = Tail(control)
          /\ IF Dropped(msg)
             THEN /\ logged' = [logged EXCEPT !.dropped =
                                   IF "type" \in DOMAIN msg THEN msg.type ELSE "no type"]
                  /\ UNCHANGED <<server, jobs, schedules, powers, running, handler,
                                 lastpublish>>
             ELSE LET map     == IF msg.type = "schedule" THEN schedules ELSE powers
                      overlap == \E t \in running : t.kind = msg.type
                      prev    == IF pk \in DOMAIN map THEN map[pk] ELSE None
                  IN IF pk \in DOMAIN map /\ ~(\E j \in jobs : j.id = map[pk])
                     THEN /\ Crash
                          /\ lastpublish' =
                               PublishRecord(msg.type, overlap, TRUE, FALSE, None, None, 0)
                               @@ PublishOutcome(clock, None, None, FALSE, None, {}, FALSE,
                                                 OthersKept(msg.type))
                          /\ UNCHANGED logged
                     ELSE /\ jobs' = { j \in jobs : ~(pk \in DOMAIN map /\ j.id = map[pk]) }
                          /\ handler' = [pc |-> "sync", kind |-> msg.type, after |-> clock,
                                         overlap |-> overlap,
                                         prev_pending |-> \E j \in jobs' : j.id = prev]
                          /\ UNCHANGED <<server, schedules, powers, running, lastpublish,
                                         logged>>
    /\ UNCHANGED <<dbvars, callvars, sessvars, clock, ops, unpublished, session, lastfire, before>>

\* the last edit changed which playlist is active at instant t
ActiveChanged(t) ==
    /\ "schedule" \in unpublished
    /\ get_active_playlist(before.items, before.default, localtime(t))
         # get_active_playlist(scheduleitem_set, sdefault, localtime(t))

\* handle_schedule: sync_schedule(schedule, timezone.localtime()); an
\* exception ends handle()
HandleSyncSchedule ==
    /\ server = "running" /\ handler.pc = "sync" /\ handler.kind = "schedule"
    /\ unpublished' = unpublished \ {"schedule"}
    /\ LET now    == handler.after
           wanted == get_active_playlist(scheduleitem_set, sdefault, localtime(now))
       IN \E n \in schedule_get_next_trigger(scheduleitem_set, localtime(now)) :
            IF n = ValueError
            THEN /\ Crash
                 /\ lastpublish' =
                      PublishRecord("schedule", handler.overlap, FALSE, TRUE, None, None, 0)
                      @@ PublishOutcome(now, n, None, FALSE, None, wanted,
                                        ActiveChanged(now), OthersKept("schedule"))
            ELSE IF n = None
            THEN /\ schedules' = DictDel(schedules, pk)
                 /\ handler' = Receiving
                 /\ lastpublish' =
                      PublishRecord("schedule", handler.overlap, FALSE, FALSE, None, None,
                                    Cardinality(PendingTimers("schedule")))
                      @@ PublishOutcome(now, n, None, handler.prev_pending, None,
                                        wanted, ActiveChanged(now), TRUE)
                 /\ UNCHANGED <<server, jobs, powers, running>>
            ELSE \E p \in wanted :
                 /\ jobs' = jobs \cup {add_job("schedule", n, sdefault)}
                 /\ schedules' = DictSet(schedules, pk, NewId)
                 /\ handler' = [pc |-> "send", kind |-> "schedule", after |-> now,
                                overlap |-> handler.overlap, prev_pending |-> handler.prev_pending,
                                p |-> p, id |-> NewId, trigger |-> n, wanted |-> wanted,
                                changed |-> ActiveChanged(now)]
                 /\ UNCHANGED <<server, powers, running, lastpublish>>
    /\ before' = [items |-> scheduleitem_set, default |-> sdefault]
    /\ UNCHANGED <<dbvars, callvars, sessvars, clock, control, ops, session, lastfire, logged>>

\* handle_schedule: the group_send of SignageServer.schedule
HandleSendSchedule ==
    /\ server = "running" /\ handler.pc = "send" /\ handler.kind = "schedule"
    /\ session' = group_send(session, playlist_update(handler.p))
    /\ handler' = Receiving
    /\ lastpublish' =
         PublishRecord("schedule", handler.overlap, FALSE, FALSE, handler.id,
                       IF pk \in DOMAIN schedules THEN schedules[pk] ELSE None,
                       Cardinality(PendingTimers("schedule")))
         @@ PublishOutcome(handler.after, handler.trigger, RunDateOf(handler.id),
                           handler.prev_pending, handler.p, handler.wanted,
                           handler.changed, TRUE)
    /\ UNCHANGED <<dbvars, callvars, sessvars, clock, server, timervars, running, control, ops,
                   unpublished, lastfire, before, logged>>

\* handle_power: sync_power(power, timezone.localtime()); without a trigger
\* trigger.astimezone raises, and any exception ends handle()
HandleSyncPower ==
    /\ server = "running" /\ handler.pc = "sync" /\ handler.kind = "power"
    /\ unpublished' = unpublished \ {"power"}
    /\ \E n \in power_get_next_trigger(poweritem_set, localtime(handler.after)) :
         IF n = ValueError \/ n = None
         THEN /\ Crash
              /\ lastpublish' =
                   PublishRecord("power", handler.overlap, FALSE, TRUE, None, None, 0)
                   @@ PublishOutcome(handler.after, n, None, FALSE, None, {}, FALSE,
                                     OthersKept("power"))
         ELSE /\ jobs' = jobs \cup {add_job("power", n, None)}
              /\ powers' = DictSet(powers, pk, NewId)
              /\ handler' = [pc |-> "send", kind |-> "power", after |-> handler.after,
                             overlap |-> handler.overlap, prev_pending |-> handler.prev_pending,
                             p |-> get_active_state(poweritem_set, localtime(handler.after)),
                             id |-> NewId, trigger |-> n]
              /\ UNCHANGED <<server, schedules, running, lastpublish>>
    /\ UNCHANGED <<dbvars, callvars, sessvars, clock, control, ops, session, lastfire, before, logged>>

\* handle_power: the group_send of SignageServer.power
HandleSendPower ==
    /\ server = "running" /\ handler.pc = "send" /\ handler.kind = "power"
    /\ handler' = Receiving
    /\ lastpublish' =
         PublishRecord("power", handler.overlap, FALSE, FALSE, handler.id,
                       IF pk \in DOMAIN powers THEN powers[pk] ELSE None,
                       Cardinality(PendingTimers("power")))
         @@ PublishOutcome(handler.after, handler.trigger, RunDateOf(handler.id),
                           handler.prev_pending, None, {}, FALSE, TRUE)
    /\ UNCHANGED <<dbvars, callvars, sessvars, clock, server, timervars, running, control, ops,
                   unpublished, session, lastfire, before, logged>>

\* ------------------------------------------------------------ the operator
\* The operator saves the Schedule in the admin with another item row or
\* another default playlist.  Saving publishes nothing.
EditSchedule ==
    /\ ops.edits < MaxEdits
    /\ \/ /\ scheduleitem_set' \in ServiceScheduleRows \ {scheduleitem_set}
          /\ UNCHANGED sdefault
       \/ /\ sdefault' \in {DefaultPlaylist, PlaylistB} \ {sdefault}
          /\ UNCHANGED scheduleitem_set
    /\ before' = [items |-> scheduleitem_set, default |-> sdefault]
    /\ ops' = [ops EXCEPT !.edits = @ + 1]
    /\ unpublished' = unpublished \cup {"schedule"}
    /\ UNCHANGED <<poweritem_set, callvars, sessvars, clock, server, timervars, running, handler,
                   control, session, lastfire, lastpublish, logged>>

\* Schedule.publish() / Power.publish(): the admin action sends
\* {"type": "schedule" | "power", ...: pk} to the scheduler's channel
Publish ==
    /\ ops.publishes < MaxPublishes
    /\ server = "running"
    /\ \E kind \in {"schedule", "power"} :
         control' = Append(control, [type |-> kind, pk |-> pk])
    /\ ops' = [ops EXCEPT !.publishes = @ + 1]
    /\ UNCHANGED <<dbvars, callvars, sessvars, clock, server, timervars, running, handler,
                   unpublished, session, histvars>>

\* Another sender puts a message on the scheduler's channel that is no
\* publish of an existing row.
SendOther ==
    /\ ops.publishes < MaxPublishes
    /\ server = "running"
    /\ \E msg \in OtherMessages : control' = Append(control, msg)
    /\ ops' = [ops EXCEPT !.publishes = @ + 1]
    /\ UNCHANGED <<dbvars, callvars, sessvars, clock, server, timervars, running, handler,
                   unpublished, session, histvars>>

\* -------------------------------------------------------- FrontendConsumer
\* connect() for a known, enabled display with a Schedule: accept, join the
\* Schedule's group, send the playlist active at timezone.now()
Connect ==
    /\ session.state = "Connecting"
    /\ \E p \in get_active_playlist(scheduleitem_set, sdefault, utcnow(clock)) :
         session' = [state |-> "Active", joined |-> TRUE, inbox |-> <<>>, shown |-> p]
    /\ UNCHANGED <<dbvars, callvars, sessvars, clock, server, timervars, running, handler, control,
                   ops, unpublished, histvars>>

\* A group message reaches the consumer: playlist_update sends the playlist's
\* message to the client; there is no handler for any other type, the
\* dispatch raises and the connection ends.
Deliver ==
    /\ session.state = "Active" /\ session.inbox # <<>>
    /\ LET msg == Head(session.inbox)
       IN IF msg.type = "playlist.update"
          THEN session' = [session EXCEPT !.inbox = Tail(@), !.shown = msg.playlist]
          ELSE session' = [state |-> "Closed", joined |-> FALSE, inbox |-> <<>>,
                           shown |-> None]
    /\ UNCHANGED <<dbvars, callvars, sessvars, clock, server, timervars, running, handler, control,
                   ops, unpublished, histvars>>

\* disconnect(): leave the group
Disconnect ==
    /\ session.state = "Active"
    /\ session' = [state |-> "Closed", joined |-> FALSE, inbox |-> <<>>,
                   shown |-> None]
    /\ UNCHANGED <<dbvars, callvars, sessvars, clock, server, timervars, running, handler, control,
                   ops, unpublished, histvars>>

\* ------------------------------------------------------ the specification
Next ==
    \/ Startup
    \/ BroadcastCurrent
    \/ Tick
    \/ TimerFire
    \/ FireSyncSchedule
    \/ FireSendSchedule
    \/ FireSyncPower
    \/ FireSendPower
    \/ Receive
    \/ HandleSyncSchedule
    \/ HandleSendSchedule
    \/ HandleSyncPower
    \/ HandleSendPower
    \/ EditSchedule
    \/ Publish
    \/ SendOther
    \/ Connect
    \/ Deliver
    \/ Disconnect

Spec == Init /\ [][Next]_vars

\* ------------------------------------------------------ service properties
\* nothing is left to do for the instant: the service runs, no timer is due,
\* no callback or handler is in progress, no control message waits
Settled ==
    /\ server = "running" /\ handler.pc = "receive" /\ control = <<>>
    /\ running = {}
    /\ \A j \in jobs : j.after > clock

\* C2: an Active frontend session joined to the Schedule's channel shows the
\* playlist that is active now, once all due timers have fired, all channel
\* messages are delivered and no edit is unpublished.
C2_SessionShowsActivePlaylist ==
    (/\ session.state = "Active" /\ session.joined /\ session.inbox = <<>>
     /\ Settled /\ unpublished = {}) =>
        session.shown \in get_active_playlist(scheduleitem_set, sdefault, localtime(clock))

\* C3: every completed firing of the Schedule's timer sent a playlist.update
\* with a playlist active at the firing instant, whether or not a further
\* trigger exists, and re-armed the timer at the next trigger (or armed none).
C3_FireBroadcastsAndRearms ==
    lastfire.after # None =>
        /\ lastfire.sent \in lastfire.wanted
        /\ lastfire.armed = lastfire.next

\* C4: each Schedule and each Power has at most one pending timer.
C4_AtMostOnePendingTimer ==
    \A kind \in {"schedule", "power"} : Cardinality(PendingTimers(kind)) <= 1

\* C4 witness: a timer has fired and re-armed, a publish for the Schedule has
\* been handled and installed a timer, and that timer is the pending one
C4_Witness ==
    /\ lastfire.after # None /\ lastfire.armed # None
    /\ lastpublish.kind = "schedule" /\ lastpublish.installed # None
    /\ \E j \in PendingTimers("schedule") : j.id = lastpublish.installed

\* C5: a publish handled while a timer callback of the same entity was
\* executing supersedes it: its cancel step did not fail, the map entry is the
\* timer it installed and no other timer of the entity is pending.
C5_PublishSupersedesRunningCallback ==
    (lastpublish.kind # "none" /\ lastpublish.overlap) =>
        /\ ~lastpublish.cancel_failed
        /\ lastpublish.entry = lastpublish.installed
        /\ lastpublish.pending = IF lastpublish.installed = None THEN 0 ELSE 1

\* a handled publish of the Schedule or the Power that met no running timer
\* callback of that entity
PublishHandledAlone ==
    lastpublish.kind \in {"schedule", "power"} /\ ~lastpublish.overlap

\* C12: after a publish for an existing Schedule or Power has been handled
\* without a concurrent fire, the previous timer is cancelled and the entity
\* has exactly one pending timer, at get_next_trigger(entity, now), if that is
\* defined, and no pending timer and no map entry otherwise.
C12_PublishRearmsAtNextTrigger ==
    PublishHandledAlone =>
        /\ ~lastpublish.cancel_failed /\ ~lastpublish.raised
        /\ ~lastpublish.prev_pending
        /\ IF IsInstant(lastpublish.trigger)
           THEN /\ lastpublish.pending = 1
                /\ lastpublish.at = lastpublish.trigger
                /\ lastpublish.entry = lastpublish.installed
           ELSE /\ lastpublish.pending = 0
                /\ lastpublish.entry = None

\* C13: when the operator's edit changed which playlist of the Schedule is
\* active now and the Schedule is then published, handling the publish
\* broadcasts the playlist that is active now.
C13_PublishBroadcastsChangedState ==
    (PublishHandledAlone /\ lastpublish.kind = "schedule" /\ lastpublish.changed) =>
        lastpublish.sent \in lastpublish.wanted

\* the entity of one kind has exactly the timer run at n and the map entry
\* for it, or no timer and no map entry when n is none
ArmedAt(kind, map, store, n) ==
    LET mine == { j \in store : j.kind = kind }
    IN IF n = None
       THEN mine = {} /\ pk \notin DOMAIN map
       ELSE /\ pk \in DOMAIN map
            /\ \E j \in mine : mine = {j} /\ j.id = map[pk] /\ j.run_date = n

\* C14: when startup completes, the Schedule and the Power each have a
\* pending timer at get_next_trigger(entity, startup instant) if that is
\* defined and no timer and no map entry otherwise, and there is no other
\* timer.
C14_StartupArmsNextTriggers ==
    [][(server = "down" /\ server' = "running") =>
          /\ \E n \in schedule_get_next_trigger(scheduleitem_set, utcnow(clock)) :
                ArmedAt("schedule", schedules', jobs', n)
          /\ \E m \in power_get_next_trigger(poweritem_set, utcnow(clock)) :
                ArmedAt("power", powers', jobs', m)
          /\ \A j \in jobs' : j.kind \in {"schedule", "power"}
          /\ DOMAIN schedules' \subseteq {pk} /\ DOMAIN powers' \subseteq {pk}]_vars

\* C14 witness: startup has just completed, the Schedule has a pending timer
\* and the Power, which has no next trigger, has no timer and no map entry
C14_Witness ==
    /\ server = "running" /\ handler.pc = "broadcast" /\ running = {}
    /\ \E j \in PendingTimers("schedule") : pk \in DOMAIN schedules /\ schedules[pk] = j.id
    /\ poweritem_set = {} /\ PendingTimers("power") = {} /\ pk \notin DOMAIN powers

\* C15: a Schedule timer callback that runs later than the timer's run time
\* computes the active playlist and the next trigger for the instant it runs
\* at, not for the run time.
C15_LateFireUsesCurrentInstant ==
    (lastfire.after # None /\ lastfire.at > lastfire.run_date) =>
        lastfire.after = lastfire.at

\* C16: a failure while handling a publish or a timer fire does not stop the
\* service: handle() goes on receiving and the timers of the other entities
\* stay as they are.
C16_FailureDoesNotStopService ==
    LET publish_failed == /\ lastpublish.kind \in {"schedule", "power"}
                          /\ (lastpublish.raised \/ lastpublish.cancel_failed)
    IN (publish_failed \/ logged.raised # "none") =>
          /\ server = "running" /\ handler.pc # "dead"
          /\ publish_failed => lastpublish.others_kept

\* C17: a control message without a type, with an unsupported type (ping) or
\* naming a Schedule / Power that does not exist is dropped: the timers, the
\* maps and the sessions' channels are left as they are and handle() goes on
\* receiving.
C17_OtherMessagesAreDropped ==
    [][(/\ server = "running" /\ handler.pc = "receive" /\ control # <<>>
        /\ Head(control) \in OtherMessages
        /\ control' = Tail(control)) =>
          /\ UNCHANGED <<jobs, schedules, powers, running, session>>
          /\ server' = "running" /\ handler' = Receiving]_vars

\* C17 witness: a ping has been dropped while a timer is pending, and the
\* service is receiving again
C17_Witness ==
    /\ logged.dropped = "ping" /\ jobs # {}
    /\ server = "running" /\ handler.pc = "receive" /\ control = <<>>

\* -------------------------------------------------- admin specification
\* One save of a Schedule in the admin with two ScheduleItem inline forms:
\* each form's instance is validated by ScheduleItem.clean, then the formset
\* by ScheduleItemAdminInlineFormSet.clean. The initial states enumerate the
\* two forms, the action submits them.
\* what the forms can hold: any window, also one that clean() refuses
FormItemsA ==
    [lower : {0, MidDay0}, upper : {None, MidDay1}, start : TimesOfDay,
     stop : TimesOfDay, rec : Recurrences, playlist : {PlaylistA}]
FormItemsB ==
    [lower : {0}, upper : {EndDay1}, start : TimesOfDay,
     stop : TimesOfDay, rec : {Weekdays}, playlist : {PlaylistB}]

Max(S) == CHOOSE x \in S : \A y \in S : y <= x

\* overlap(x1, x2, y1, y2) of the formset's clean
overlap(x1, x2, y1, y2) == Max({x1, y1}) <= Min({x2, y2})

\* recurrences(r, start, stop) of the formset's clean: the dates of the
\* occurrences between start and stop, both included; the occurrences are the
\* midnights of the rule's weekdays from the midnight of start's date on
recurrences(r, start, stop) ==
    { d \in (start \div TicksPerDay) .. (stop \div TicksPerDay) :
        /\ (d % WeekLen) \in r
        /\ start <= d * TicksPerDay /\ d * TicksPerDay <= stop }

\* the body of the loop of ScheduleItemAdminInlineFormSet.clean for one pair
\* of changed forms; min() of None and a datetime raises TypeError
formset_clean_pair(a, b) ==
    IF a.upper = None \/ b.upper = None THEN "TypeError"
    ELSE IF ~overlap(a.lower, a.upper, b.lower, b.upper) THEN "ok"
    ELSE IF ~overlap(a.start, a.stop, b.start, b.stop) THEN "ok"
    ELSE LET start == Max({a.lower, b.lower})
             stop  == Min({a.upper, b.upper})
         IN IF recurrences(a.rec, start, stop) \cap recurrences(b.rec, start, stop) # {}
            THEN "ValidationError"
            ELSE "ok"

\* ScheduleItemAdminInlineFormSet.clean over the two forms: only forms that
\* have changed are paired
formset_clean(fa, fb) ==
    IF fa.changed /\ fb.changed THEN formset_clean_pair(fa.item, fb.item) ELSE "ok"

\* what becomes of the save: an exception that is no ValidationError leaves
\* the view, an error on a form or on the formset rejects the edit
edit_outcome(fa, fb) ==
    LET form_errors == ~clean(fa.item) \/ ~clean(fb.item)
        formset     == formset_clean(fa, fb)
    IN IF formset = "TypeError" THEN "TypeError"
       ELSE IF form_errors \/ formset = "ValidationError" THEN "ValidationError"
       ELSE "saved"

\* form A is new or changed; form B is new or changed, or it shows a stored
\* row unchanged
InitAdmin ==
    /\ clock = 0
    /\ ServiceDown
    /\ sdefault = DefaultPlaylist
    /\ poweritem_set = {}
    /\ \E a \in FormItemsA, b \in FormItemsB, changed \in BOOLEAN :
         /\ ~changed => clean(b)
         /\ arg = [a |-> [item |-> a, changed |-> TRUE],
                   b |-> [item |-> b, changed |-> changed]]
         /\ scheduleitem_set = IF changed THEN {} ELSE {b}
    /\ ret = NoCall
    /\ before = [items |-> scheduleitem_set, default |-> sdefault]
    /\ SessionsIdle

SubmitEdit ==
    /\ ret = NoCall
    /\ ret' = [op |-> "edit", val |-> edit_outcome(arg.a, arg.b)]
    /\ scheduleitem_set' = IF ret'.val = "saved"
                           THEN {arg.a.item, arg.b.item}
                           ELSE scheduleitem_set
    /\ UNCHANGED <<sdefault, poweritem_set, arg, svcvars, sessvars>>

NextAdmin == SubmitEdit

SpecAdmin == InitAdmin /\ [][NextAdmin]_vars

\* ------------------------------------------------------- admin properties
\* two items' absolute ranges share an instant
RangesOverlap(a, b) ==
    \E t \in 0 .. Horizon : range_contains(a, t) /\ range_contains(b, t)
\* two items' daily windows share a time of day
WindowsOverlap(a, b) ==
    \E tod \in TimesOfDay : /\ a.start <= tod /\ tod < a.stop
                            /\ b.start <= tod /\ tod < b.stop
\* a date of both recurrence rules has an instant in both ranges
DatesIntersect(a, b) ==
    \E t \in 0 .. Horizon :
        /\ range_contains(a, t) /\ range_contains(b, t)
        /\ (LocalDay(t) % WeekLen) \in (a.rec \cap b.rec)

\* C24: two ScheduleItems submitted (new or changed) in one edit whose
\* absolute ranges overlap, whose daily windows overlap and whose recurrence
\* dates intersect within the common part of the ranges make the edit end
\* with a validation error, also when a range has no upper bound.
C24_OverlappingPairIsRejected ==
    (/\ ret.op = "edit" /\ arg.a.changed /\ arg.b.changed
     /\ RangesOverlap(arg.a.item, arg.b.item)
     /\ WindowsOverlap(arg.a.item, arg.b.item)
     /\ DatesIntersect(arg.a.item, arg.b.item)) => ret.val = "ValidationError"

\* C25: validation rejects an item whose daily start equals its stop, as well
\* as one whose start is later than its stop: no item of a saved edit has
\* start >= stop.
C25_SavedItemsHaveStartBeforeStop ==
    (ret.op = "edit" /\ ret.val = "saved") =>
        \A s \in {arg.a.item, arg.b.item} : s.start < s.stop

\* ------------------------------------------------ content specification
\* Playlist.get_message and the get_runtime / get_message methods of the
\* Page classes are pure functions of the rows: the initial states enumerate
\* a playlist, the actions call them.
\* how many PlaylistItems the playlist has
MaxItems == 2

\* pydantic refuses the arguments a schema is constructed with
ValidationError == [error |-> "ValidationError"]

\* variant of PDFPage_get_runtime that takes a zero page_runtime for a set one
PDFPage_get_runtime_zero_is_set(p) ==
    IF p.page_runtime # None
    THEN p.renders * p.page_runtime
    ELSE p.runtime

\* PDFPage.get_runtime: `if self.page_runtime:` is false for null and for a
\* zero duration; super().get_runtime() on the real instance finds func ==
\* self.get_runtime and returns self.runtime
PDFPage_get_runtime(p) ==
    IF p.page_runtime # None /\ p.page_runtime # 0
    THEN p.renders * p.page_runtime
    ELSE p.runtime

\* Page.get_runtime called on the base Page row: the get_runtime of the real
\* instance is another bound method, so it is called
Page_get_runtime(p) ==
    IF p.kind = "PDF" THEN PDFPage_get_runtime(p) ELSE p.runtime

\* Page.get_message: the get_message of the real instance. WeatherPage hands
\* page = "Weather" and no content to WeatherPageSchema, whose page is
\* Literal["HTML"] and whose content is required.
Page_get_message(p) ==
    CASE p.kind = "Weather" -> ValidationError
      [] p.kind = "PDF" -> [page |-> "PDF", id |-> p.id, runtime |-> PDFPage_get_runtime(p)]
      [] OTHER -> [page |-> p.kind, id |-> p.id, runtime |-> Page_get_runtime(p)]

\* playlistitem_set.filter(enabled=True)
IsEnabled(item) == item.enabled

\* Playlist.get_message: the id and the message of the page of every enabled
\* item, in the order of OrderedModel; an exception of a page's get_message
\* leaves the list comprehension
Playlist_get_message(playlist) ==
    LET items == SelectSeq(playlist_set[playlist], IsEnabled)
        pages == [i \in 1 .. Len(items) |-> Page_get_message(items[i].page)]
    IN IF \E i \in 1 .. Len(pages) : pages[i] = ValidationError
       THEN ValidationError
       ELSE [id |-> playlist, pages |-> pages]

\* the Page rows and the PlaylistItems a playlist is made of
Pages == {HTMLPage, WeatherPage} \cup PDFPages
PlaylistItems == [page : Pages, enabled : BOOLEAN]
PlaylistItemSeqs == UNION { [1 .. n -> PlaylistItems] : n \in 0 .. MaxItems }

InitContent ==
    /\ clock = 0
    /\ ServiceDown
    /\ sdefault = DefaultPlaylist
    /\ scheduleitem_set = {}
    /\ poweritem_set = {}
    /\ arg = localtime(0)
    /\ ret = NoCall
    /\ before = [items |-> scheduleitem_set, default |-> sdefault]
    /\ display = [exists |-> TRUE, enabled |-> TRUE, schedule |-> pk, power |-> pk,
                  connected |-> None, config |-> StoredConfig,
                  screenshot |-> NoScreenshot]
    /\ frontend = NoFrontend
    /\ second = NoFrontend
    /\ powerlink = NoPowerLink
    /\ sends = 0
    /\ \E items \in PlaylistItemSeqs : playlist_set = [p \in {PlaylistA} |-> items]

CallPlaylistGetMessage ==
    /\ ret = NoCall
    /\ ret' = [op |-> "Playlist.get_message", val |-> Playlist_get_message(PlaylistA)]
    /\ UNCHANGED <<dbvars, arg, svcvars, sessvars>>

\* get_runtime of the PDFPage row of a playlist item, and of its base Page row
CallPDFPageGetRuntime ==
    /\ ret = NoCall
    /\ \E i \in 1 .. Len(playlist_set[PlaylistA]) :
         LET p == playlist_set[PlaylistA][i].page
         IN /\ p.kind = "PDF"
            /\ ret' = [op |-> "PDFPage.get_runtime", page |-> p,
                       val |-> PDFPage_get_runtime(p), base |-> Page_get_runtime(p)]
    /\ UNCHANGED <<dbvars, arg, svcvars, sessvars>>

NextContent ==
    \/ CallPlaylistGetMessage
    \/ CallPDFPageGetRuntime

SpecContent == InitContent /\ [][NextContent]_vars

\* ------------------------------------------------------ content properties
\* the positions of the enabled items of a playlist, and the k-th of them
EnabledAt(P) == { i \in 1 .. Len(playlist_set[P]) : playlist_set[P][i].enabled }
KthEnabled(P, k) ==
    CHOOSE i \in EnabledAt(P) : Cardinality({ j \in EnabledAt(P) : j <= i }) = k

\* m is the message of playlist P: its id and, in playlist order, one page
\* message for each enabled item
IsMessageOf(m, P) ==
    /\ m # ValidationError
    /\ m.id = P
    /\ Len(m.pages) = Cardinality(EnabledAt(P))
    /\ \A k \in 1 .. Len(m.pages) : m.pages[k].id = playlist_set[P][KthEnabled(P, k)].page.id

\* C27: Playlist.get_message returns the playlist's id and a page list that
\* holds, in playlist order, exactly one page message for each enabled
\* PlaylistItem and none for a disabled one.
C27_MessageListsEnabledPagesInOrder ==
    ret.op = "Playlist.get_message" => IsMessageOf(ret.val, PlaylistA)

\* C28 as stated: PDFPage.get_runtime is (rendered pages) x page_runtime when
\* page_runtime is set and the base runtime when it is not set, and
\* Page.get_runtime on the base Page returns the same value.
C28_RuntimeIsPagesTimesPageRuntime ==
    ret.op = "PDFPage.get_runtime" =>
        /\ ret.val = IF ret.page.page_runtime # None
                     THEN ret.page.renders * ret.page.page_runtime
                     ELSE ret.page.runtime
        /\ ret.base = ret.val

\* C28 amended: PDFPage.get_runtime is (rendered pages) x page_runtime when
\* page_runtime is set to a non-zero duration and the base runtime when it is
\* null or zero, and Page.get_runtime on the base Page returns the same value.
C28_RuntimeIsPagesTimesNonZeroPageRuntime ==
    ret.op = "PDFPage.get_runtime" =>
        /\ ret.page.page_runtime \notin {None, 0} =>
              ret.val = ret.page.renders * ret.page.page_runtime
        /\ ret.page.page_runtime \in {None, 0} => ret.val = ret.page.runtime
        /\ ret.base = ret.val

\* C28 witness: 10 rendered pages at 5 seconds give 50 seconds, from the
\* PDFPage and from its base Page
C28_Witness ==
    /\ ret.op = "PDFPage.get_runtime"
    /\ ret.page.renders = 10 /\ ret.page.page_runtime = 5
    /\ ret.val = 50 /\ ret.base = 50

\* ------------------------------------------------ session specification
\* The two consumers of one display connection (consumers.py), with the
\* group messages SignageServer sends to the channels as their environment.
\* how many group messages are sent
MaxSends == 2

\* the Display row the connection's pk names: none, a disabled one, or an
\* enabled one with or without a Schedule and a Power
DisplayRows ==
    { d \in [exists : BOOLEAN, enabled : BOOLEAN, schedule : {pk, None},
             power : {pk, None}, connected : {None}, config : {StoredConfig},
             screenshot : {NoScreenshot}] :
        /\ ~d.exists => ~d.enabled
        /\ ~d.enabled => (d.schedule = pk /\ d.power = pk) }

\* the Playlist rows of a session: a default playlist of one page, and a
\* playlist A with a disabled item or with a WeatherPage
SessionPlaylists ==
    { [p \in {DefaultPlaylist, PlaylistA} |->
          IF p = DefaultPlaylist THEN <<[page |-> HTMLPage, enabled |-> TRUE]>> ELSE items] :
      items \in { <<[page |-> HTMLPage, enabled |-> FALSE],
                    [page |-> CHOOSE q \in PDFPages : q.page_runtime = 5 /\ q.renders = 10,
                     enabled |-> TRUE]>>,
                  <<[page |-> HTMLPage, enabled |-> TRUE],
                    [page |-> WeatherPage, enabled |-> TRUE]>> } }

InitSession ==
    /\ clock \in QueryInstants
    /\ ServiceDown
    /\ sdefault = DefaultPlaylist
    /\ scheduleitem_set \in ServiceScheduleRows
    /\ poweritem_set \in ServicePowerRows
    /\ arg = localtime(0)
    /\ ret = NoCall
    /\ before = [items |-> scheduleitem_set, default |-> sdefault]
    /\ display \in DisplayRows
    /\ frontend = NoFrontend
    /\ second = NoFrontend
    /\ powerlink = NoPowerLink
    /\ sends = 0
    /\ playlist_set \in SessionPlaylists

\* a group message reaches the channel of a consumer that is a member of the
\* group and still there to read it
channel_send(sess, msg) ==
    IF sess.joined /\ sess.state # "Closed"
    THEN [sess EXCEPT !.inbox = Append(@, msg)]
    ELSE sess

\* an exception leaves the consumer: the connection ends, what waited on its
\* channel is never read, disconnect() is not run
raise(sess) == [sess EXCEPT !.state = "Closed", !.cause = "error", !.inbox = <<>>]

\* variant of FrontendConnect that records the connection before it looks at
\* the enabled flag
FrontendConnect_record_first ==
    /\ frontend.state = "Connecting"
    /\ IF ~display.exists
       THEN /\ frontend' = [frontend EXCEPT !.state = "Closed", !.cause = "rejected"]
            /\ UNCHANGED display
       ELSE /\ display' = [display EXCEPT !.connected = clock]
            /\ IF ~display.enabled
               THEN frontend' = [frontend EXCEPT !.state = "Closed", !.cause = "rejected"]
               ELSE frontend' = [frontend EXCEPT !.state = "Accepted",
                                                 !.joined = (display.schedule # None)]
    /\ UNCHANGED <<dbvars, callvars, svcvars, powerlink, sends, playlist_set, second>>

\* FrontendConsumer.connect up to group_add: look the display up, close for
\* an unknown or disabled one, else record the connection, accept, and join
\* the Schedule's group if the display has a Schedule
FrontendConnect ==
    /\ frontend.state = "Connecting"
    /\ IF ~display.exists \/ ~display.enabled
       THEN /\ frontend' = [frontend EXCEPT !.state = "Closed", !.cause = "rejected"]
            /\ UNCHANGED display
       ELSE /\ display' = [display EXCEPT !.connected = clock]
            /\ frontend' = [frontend EXCEPT !.state = "Accepted",
                                            !.joined = (display.schedule # None)]
    /\ UNCHANGED <<dbvars, callvars, svcvars, powerlink, sends, playlist_set, second>>

\* FrontendConsumer.connect, its last statement: send the message of
\* self.display.schedule.get_active_playlist(timezone.now()); without a
\* Schedule the attribute access on None raises
FrontendSendCurrent ==
    /\ frontend.state = "Accepted"
    /\ IF display.schedule = None
       THEN frontend' = raise(frontend)
       ELSE \E p \in get_active_playlist(scheduleitem_set, sdefault, utcnow(clock)) :
              LET m == Playlist_get_message(p)
              IN frontend' = IF m = ValidationError
                             THEN raise(frontend)
                             ELSE [frontend EXCEPT !.state = "Active",
                                     !.out = Append(@, [kind |-> "snapshot", playlist |-> p,
                                                        message |-> m])]
    /\ UNCHANGED <<dbvars, callvars, svcvars, display, powerlink, sends, playlist_set, second>>

\* A group message is dispatched to the FrontendConsumer once connect() has
\* returned: playlist_update returns when the Playlist row is gone and sends
\* the playlist's message otherwise; for any other type there is no handler
\* and the dispatch raises.
FrontendDeliver ==
    /\ frontend.state = "Active" /\ frontend.inbox # <<>>
    /\ LET msg == Head(frontend.inbox)
       IN IF msg.type # "playlist.update"
          THEN frontend' = raise(frontend)
          ELSE IF msg.playlist \notin DOMAIN playlist_set
          THEN frontend' = [frontend EXCEPT !.inbox = Tail(@)]
          ELSE LET m == Playlist_get_message(msg.playlist)
               IN frontend' = IF m = ValidationError
                              THEN raise(frontend)
                              ELSE [frontend EXCEPT !.inbox = Tail(@),
                                      !.out = Append(@, [kind |-> "update",
                                                         playlist |-> msg.playlist,
                                                         message |-> m])]
    /\ UNCHANGED <<dbvars, callvars, svcvars, display, powerlink, sends, playlist_set, second>>

\* websocket.disconnect reaches a consumer when the client goes away and
\* also after close() has rejected the handshake in connect()
Disconnecting(sess) ==
    \/ sess.state = "Active"
    \/ sess.state = "Closed" /\ sess.cause = "rejected" /\ sess.closing = "none"

\* what disconnect() leaves of the consumer when it returns
disconnected(sess) ==
    [sess EXCEPT !.state = "Closed", !.cause = IF @ = "none" THEN "client" ELSE @,
                 !.closing = "done", !.joined = FALSE, !.inbox = <<>>]

\* FrontendConsumer.disconnect: leave the Schedule's group, clear the
\* connection timestamp. self.display was never assigned when connect() found
\* no Display, and reading it raises AttributeError.
FrontendDisconnect ==
    /\ Disconnecting(frontend)
    /\ IF ~display.exists
       THEN /\ frontend' = [frontend EXCEPT !.closing = "error"]
            /\ UNCHANGED display
       ELSE /\ frontend' = disconnected(frontend)
            /\ display' = [display EXCEPT !.connected = None]
    /\ UNCHANGED <<dbvars, callvars, svcvars, powerlink, sends, playlist_set, second>>

\* variant of PowerConnect that sends the Power's state (off) for a display
\* without a Power
PowerConnect_no_default ==
    /\ powerlink.state = "Connecting"
    /\ IF ~display.exists \/ ~display.enabled
       THEN powerlink' = [powerlink EXCEPT !.state = "Closed", !.cause = "rejected"]
       ELSE IF display.power = None
       THEN powerlink' = [powerlink EXCEPT !.state = "Active",
                                           !.out = Append(@, get_active_state({}, utcnow(clock)))]
       ELSE powerlink' = [powerlink EXCEPT !.state = "Active", !.joined = TRUE,
                             !.out = Append(@, get_active_state(poweritem_set, utcnow(clock)))]
    /\ UNCHANGED <<dbvars, callvars, svcvars, display, frontend, sends, playlist_set, second>>

\* DisplayConsumer.connect: close for an unknown or disabled display, else
\* accept; without a Power send power = True, with one join the Power's group
\* and send power = get_active_state(timezone.now())
PowerConnect ==
    /\ powerlink.state = "Connecting"
    /\ IF ~display.exists \/ ~display.enabled
       THEN powerlink' = [powerlink EXCEPT !.state = "Closed", !.cause = "rejected"]
       ELSE IF display.power = None
       THEN powerlink' = [powerlink EXCEPT !.state = "Active", !.out = Append(@, TRUE)]
       ELSE powerlink' = [powerlink EXCEPT !.state = "Active", !.joined = TRUE,
                             !.out = Append(@, get_active_state(poweritem_set, utcnow(clock)))]
    /\ UNCHANGED <<dbvars, callvars, svcvars, display, frontend, sends, playlist_set, second>>

\* DisplayConsumer.power_on / power_off; no handler for any other type
PowerDeliver ==
    /\ powerlink.state = "Active" /\ powerlink.inbox # <<>>
    /\ LET msg == Head(powerlink.inbox)
       IN IF msg.type \in {"power.on", "power.off"}
          THEN powerlink' = [powerlink EXCEPT !.inbox = Tail(@),
                                !.out = Append(@, msg.type = "power.on")]
          ELSE powerlink' = raise(powerlink)
    /\ UNCHANGED <<dbvars, callvars, svcvars, display, frontend, sends, playlist_set, second>>

\* DisplayConsumer.disconnect: leave the Power's group; the connection
\* timestamp is not written. self.display was never assigned when connect()
\* found no Display, and reading it raises AttributeError.
PowerDisconnect ==
    /\ Disconnecting(powerlink)
    /\ powerlink' = IF ~display.exists
                    THEN [powerlink EXCEPT !.closing = "error"]
                    ELSE disconnected(powerlink)
    /\ UNCHANGED <<dbvars, callvars, svcvars, display, frontend, sends, playlist_set, second>>

\* SignageServer.schedule: group_send(schedule.channel, playlist.update)
SendPlaylistUpdate ==
    /\ sends < MaxSends
    /\ \E p \in DOMAIN playlist_set :
         frontend' = [channel_send(frontend, playlist_update(p)) EXCEPT !.received =
                         IF frontend.joined /\ frontend.state # "Closed"
                         THEN Append(@, p) ELSE @]
    /\ sends' = sends + 1
    /\ UNCHANGED <<dbvars, callvars, svcvars, display, powerlink, playlist_set, second>>

\* SignageServer.handle, before the loop: the Power's state is sent to
\* s.channel, the channel of the Schedule
SendCurrentPower ==
    /\ sends < MaxSends
    /\ frontend' = channel_send(frontend,
                      power_message(get_active_state(poweritem_set, localtime(clock))))
    /\ sends' = sends + 1
    /\ UNCHANGED <<dbvars, callvars, svcvars, display, powerlink, playlist_set, second>>

\* SignageServer.power: group_send(power.channel, power.on | power.off)
SendPowerState ==
    /\ sends < MaxSends
    /\ \E state \in BOOLEAN : powerlink' = channel_send(powerlink, power_message(state))
    /\ sends' = sends + 1
    /\ UNCHANGED <<dbvars, callvars, svcvars, display, frontend, playlist_set, second>>

\* The operator deletes playlist A: its rows go, and by on_delete=CASCADE the
\* ScheduleItems that name it
DeletePlaylist ==
    /\ PlaylistA \in DOMAIN playlist_set
    /\ playlist_set' = [p \in (DOMAIN playlist_set) \ {PlaylistA} |-> playlist_set[p]]
    /\ scheduleitem_set' = { s \in scheduleitem_set : s.playlist # PlaylistA }
    /\ UNCHANGED <<sdefault, poweritem_set, callvars, svcvars, display, frontend,
                   powerlink, sends, second>>

NextSession ==
    \/ FrontendConnect
    \/ FrontendSendCurrent
    \/ FrontendDeliver
    \/ FrontendDisconnect
    \/ PowerConnect
    \/ PowerDeliver
    \/ PowerDisconnect
    \/ SendPlaylistUpdate
    \/ SendCurrentPower
    \/ SendPowerState
    \/ DeletePlaylist

SpecSession == InitSession /\ [][NextSession]_vars

\* ------------------------------------------------------ session properties
\* the playlists of the playlist.update messages of a sequence of group
\* messages, in order
RECURSIVE Updates(_)
Updates(msgs) ==
    IF msgs = <<>> THEN <<>>
    ELSE IF Head(msgs).type = "playlist.update"
         THEN <<Head(msgs).playlist>> \o Updates(Tail(msgs))
         ELSE Updates(Tail(msgs))

\* the playlists of the messages sent to the client after the first one
RECURSIVE Forwarded(_)
Forwarded(out) ==
    IF out = <<>> THEN <<>>
    ELSE IF Head(out).kind = "update"
         THEN <<Head(out).playlist>> \o Forwarded(Tail(out))
         ELSE Forwarded(Tail(out))

\* C18: an accepted frontend session of a display with a Schedule is a member
\* of the Schedule's channel before the as-of-now playlist is resolved, the
\* as-of-now message is the first one sent to the client, and the
\* playlist.update messages broadcast since the join are sent to the client
\* after it, in order, none lost (unless the client disconnected).
C18_SnapshotFirstThenEveryUpdate ==
    (display.schedule # None /\ frontend.state \in {"Accepted", "Active", "Closed"}
     /\ frontend.cause \notin {"rejected", "client"}) =>
        /\ frontend.state = "Accepted" => (frontend.joined /\ frontend.out = <<>>)
        /\ frontend.out # <<>> => Head(frontend.out).kind = "snapshot"
        /\ frontend.state # "Accepted" =>
              Forwarded(frontend.out) \o Updates(frontend.inbox) = frontend.received

\* C19: a frontend connection for a known, enabled display without a Schedule
\* is accepted and stays Active: connect ends without an error, the session
\* joins no channel and the connection timestamp stays set until it closes.
C19_NoScheduleSessionStaysActive ==
    (display.exists /\ display.enabled /\ display.schedule = None) =>
        /\ frontend.cause # "error"
        /\ frontend.state \in {"Accepted", "Active"} =>
              (~frontend.joined /\ display.connected # None)

\* some PowerItem is on at the local time of day and recurs on the local date
PowerOnAt(t) ==
    \E p \in poweritem_set : /\ p.on <= LocalTime(t) /\ LocalTime(t) < p.off
                             /\ (LocalDay(t) % WeekLen) \in p.rec

\* C20: an accepted power-link session of a display with a Power is a member
\* of the Power's channel and its first message has power =
\* get_active_state(now); for a display without a Power it is a member of no
\* channel and its first message has power = true.
C20_PowerLinkFirstMessage ==
    (powerlink.state # "Connecting" /\ powerlink.cause # "rejected") =>
        /\ powerlink.out # <<>>
        /\ IF display.power = None
           THEN ~powerlink.joined /\ Head(powerlink.out) = TRUE
           ELSE /\ powerlink.state = "Active" => powerlink.joined
                /\ Head(powerlink.out) = PowerOnAt(clock)

\* C20 witness: a session of a display with a Power got power = true first,
\* is a member of the channel and has since forwarded a power.off
C20_Witness ==
    /\ powerlink.state = "Active" /\ display.power = pk /\ powerlink.joined
    /\ powerlink.out = <<TRUE, FALSE>>

\* a connection attempt that ended in Closed by rejection: never a member of
\* a group, nothing waiting for it, nothing sent to the client
Rejected(sess) ==
    /\ sess.state = "Closed" /\ sess.cause = "rejected"
    /\ ~sess.joined /\ sess.inbox = <<>> /\ sess.out = <<>>

\* C21: a connection attempt (frontend or power link) for an unknown or a
\* disabled display goes from Connecting to Closed without being accepted: it
\* joins no channel, gets no playlist or power message whatever is broadcast
\* afterwards, and the display's connection timestamp is not set.
C21_UnknownOrDisabledIsRejected ==
    (~display.exists \/ ~display.enabled) =>
        /\ display.connected = None
        /\ frontend.state # "Connecting" => Rejected(frontend)
        /\ powerlink.state # "Connecting" => Rejected(powerlink)

\* C21 witness: both connections of a disabled display were rejected and the
\* group messages were broadcast after that
C21_Witness ==
    /\ display.exists /\ ~display.enabled
    /\ Rejected(frontend) /\ Rejected(powerlink)
    /\ sends = MaxSends

\* C22: when a session has reached Closed by client disconnect or by
\* rejection, its close handling completes (disconnect() returns), and after
\* it the session is a member of no channel and the Display's connection
\* timestamp is null.
C22_CloseHandlingLeavesAndClears ==
    /\ frontend.closing # "error" /\ powerlink.closing # "error"
    /\ \A sess \in {frontend, powerlink} :
          (sess.state = "Closed" /\ sess.closing = "done") =>
              (~sess.joined /\ display.connected = None)

\* the FrontendConsumer takes a playlist.update from its channel in this step
DeliveredUpdate ==
    /\ frontend.state = "Active" /\ frontend.joined /\ frontend.inbox # <<>>
    /\ Head(frontend.inbox).type = "playlist.update"
    /\ Len(frontend'.inbox) < Len(frontend.inbox)
    /\ frontend'.cause # "client"

\* C23: when a playlist.update carrying playlist id P is delivered to a joined
\* frontend session, the next message sent to the client is the message of
\* playlist P (id P and P's enabled pages); if playlist P no longer exists,
\* nothing is sent and the session stays open and joined.
C23_UpdateSendsPlaylistMessage ==
    [][DeliveredUpdate =>
        LET P == Head(frontend.inbox).playlist
        IN IF P \in DOMAIN playlist_set
           THEN /\ Len(frontend'.out) = Len(frontend.out) + 1
                /\ frontend'.out[Len(frontend'.out)].playlist = P
                /\ IsMessageOf(frontend'.out[Len(frontend'.out)].message, P)
           ELSE /\ frontend'.out = frontend.out
                /\ frontend'.state = "Active" /\ frontend'.joined]_vars

\* C26: every playlist.update sent by a timer fire carries a playlist that
\* get_active_playlist returns for the Schedule as stored, at the instant the
\* fire evaluates, and every power.on / power.off sent by a timer fire matches
\* the Power's active state at that instant (power.on iff some item is on).
C26_FireSendsActiveState ==
    /\ (lastfire.after # None /\ lastfire.sent # None) => lastfire.sent \in lastfire.wanted
    /\ logged.power.sent # "none" =>
          ((logged.power.sent = "power.on") <=> PowerOnAt(logged.power.after))

\* the one item of the Schedule, when it has one
TheItem == CHOOSE s \in scheduleitem_set : TRUE

\* the local day's window of the one item holds the instant asked for, the
\* item's range has not ended at that instant, and it ends inside that window
RangeEndsInsideWindow ==
    LET s   == TheItem
        day == LocalDay(arg.t)
    IN /\ Cardinality(scheduleitem_set) = 1
       /\ (day % WeekLen) \in s.rec
       /\ localize(day, s.start) <= arg.t /\ arg.t < localize(day, s.stop)
       /\ s.lower <= arg.t
       /\ s.upper # None /\ arg.t < s.upper /\ s.upper < localize(day, s.stop)

\* C29: the end of a candidate window is the earlier of the occurrence date at
\* the item's daily stop and the item's range upper bound: asked inside a
\* window in which the item's range ends, Schedule.get_next_trigger returns
\* the range upper bound, not the later daily stop.
C29_WindowEndIsBoundedByRange ==
    (ret.op = "schedule_get_next_trigger" /\ ~arg.utc /\ RangeEndsInsideWindow) =>
        ret.val = TheItem.upper

\* C30: get_next_trigger of a Schedule and of a Power returns an instant or
\* none, for every timezone-aware instant in either representation; when all
\* candidates are discarded as elapsed it returns none and does not fail.
C30_NextTriggerNeverFails ==
    ret.op \in {"schedule_get_next_trigger", "power_get_next_trigger"} =>
        ret.val # ValueError

\* C31: when a Power is published or its timer fires and get_next_trigger
\* returns none, the service still broadcasts the current power state and
\* leaves the Power with no pending timer and no map entry; it is not an
\* error: no timer callback of the Power raised, and a handled publish of the
\* Power without a next trigger raised nothing and ended with no timer.
C31_PowerWithoutTriggerIsNoError ==
    /\ logged.raised # "power"
    /\ (lastpublish.kind = "power" /\ lastpublish.trigger = None) =>
           /\ ~lastpublish.raised
           /\ server = "running"
           /\ lastpublish.pending = 0
           /\ lastpublish.entry = None

\* C32: after an accepted edit no two stored ScheduleItems of the Schedule
\* overlap (absolute ranges, daily windows and recurrence dates all
\* intersecting), the pair of an item changed by the edit and a stored item
\* the edit left unchanged included.
C32_StoredItemsNeverOverlap ==
    (ret.op = "edit" /\ ret.val = "saved") =>
        \A a \in scheduleitem_set, b \in scheduleitem_set :
            a # b => ~(/\ RangesOverlap(a, b)
                       /\ WindowsOverlap(a, b)
                       /\ DatesIntersect(a, b))

\* the instant asked for, in the other representation
OtherRepresentation == [t |-> arg.t, utc |-> ~arg.utc]

\* C33: get_active_playlist, get_active_state and both get_next_trigger
\* return the same result for the UTC and the local representation of the same
\* instant: what a call returned is a result of the call with the other
\* representation.
C33_ResultIgnoresRepresentation ==
    /\ ret.op = "get_active_playlist" =>
           ret.val \in get_active_playlist(scheduleitem_set, sdefault, OtherRepresentation)
    /\ ret.op = "get_active_state" =>
           ret.val = get_active_state(poweritem_set, OtherRepresentation)
    /\ ret.op = "schedule_get_next_trigger" =>
           ret.val \in schedule_get_next_trigger(scheduleitem_set, OtherRepresentation)
    /\ ret.op = "power_get_next_trigger" =>
           ret.val \in power_get_next_trigger(poweritem_set, OtherRepresentation)

\* the types of the messages waiting on a consumer's channel
InboxTypes(sess) == { sess.inbox[i].type : i \in 1 .. Len(sess.inbox) }

\* C34: the messages sent to a Schedule's channel are playlist.update
\* messages and those sent to a Power's channel are power.on / power.off
\* messages; the state of a Power is sent to the Power's own channel: a
\* frontend session, member of the Schedule's group, is only ever handed
\* playlist.update messages, a power link only power.on / power.off.
C34_ChannelsCarryTheirOwnMessages ==
    /\ InboxTypes(frontend) \subseteq {"playlist.update"}
    /\ InboxTypes(powerlink) \subseteq {"power.on", "power.off"}

\* the handle the map keeps for the entity refers to a pending timer of it
HandleIsPending(map, kind) ==
    pk \in DOMAIN map => \E j \in PendingTimers(kind) : j.id = map[pk]

\* C36: every handle in the schedules map and in the powers map refers to a
\* pending timer, so the cancel step of a later publish never operates on a
\* timer that has fired or was removed: whenever handle() is about to receive
\* a control message, the handle of each entity is that of a pending timer,
\* and the cancel step of no handled publish has failed.
C36_HandlesReferToPendingTimers ==
    /\ (server = "running" /\ handler.pc = "receive") =>
          /\ HandleIsPending(schedules, "schedule")
          /\ HandleIsPending(powers, "power")
    /\ lastpublish.kind \in {"schedule", "power"} => ~lastpublish.cancel_failed

\* ---------------------------------------------------- link specification
\* One power link of an enabled Display and the messages its client sends:
\* DisplayConsumer.receive_json writes the config column and the cached
\* screenshot of the Display.
\* how many messages the client sends
MaxMessages == 2

\* the key is not in the message
Absent == "absent"
\* Python's None, JSON's null
JsonNull == "null"

\* the images a client can report, as the base64 text of their PNG file
CachedScreen == "base64 of image 0"
NewScreen == "base64 of image 1"
\* what a client message can carry under "config" and under "screen": nothing,
\* a value, and for the screen also the empty text and text that is no image
Configs == {Absent, "config 1"}
Screens == {Absent, "", NewScreen, "garbage"}
Contents == [config : Configs, screen : Screens]
NoContent == [config |-> Absent, screen |-> Absent]

\* content.get(key): None for a missing key
content_get(content, key) ==
    IF content[key] = Absent THEN JsonNull ELSE content[key]

\* Image.open(BytesIO(b64decode(screen))): the image, or an exception for
\* bytes that are no image
Image_open(screen) ==
    CASE screen = CachedScreen -> "image 0"
      [] screen = NewScreen -> "image 1"
      [] OTHER -> "Exception"

\* the setter of Display.screenshot: the cache entry it writes for an image,
\* b64encode of the image saved in its own format
screenshot_setter(image) ==
    CASE image = "image 0" -> CachedScreen
      [] image = "image 1" -> NewScreen

\* DisplayConsumer.receive_json: the config column becomes content.get("config");
\* a screen that is neither None nor empty is opened and cached, and when
\* that raises, the deleter of Display.screenshot removes the cache entry;
\* save(update_fields=["config"])
receive_json(d, content) ==
    LET screen == content_get(content, "screen")
    IN [d EXCEPT !.config = content_get(content, "config"),
                 !.screenshot =
                     IF screen = JsonNull \/ screen = "" THEN @
                     ELSE IF Image_open(screen) = "Exception" THEN NoScreenshot
                     ELSE screenshot_setter(Image_open(screen))]

\* an enabled Display with or without a Power, with or without a cached
\* screenshot
LinkDisplayRows ==
    [exists : {TRUE}, enabled : {TRUE}, schedule : {pk}, power : {pk, None},
     connected : {None}, config : {StoredConfig},
     screenshot : {NoScreenshot, CachedScreen}]

InitLink ==
    /\ clock = 0
    /\ ServiceDown
    /\ sdefault = DefaultPlaylist
    /\ scheduleitem_set = {}
    /\ poweritem_set \in ServicePowerRows
    /\ arg = NoContent
    /\ ret = NoCall
    /\ before = [items |-> scheduleitem_set, default |-> sdefault]
    /\ display \in LinkDisplayRows
    /\ frontend = NoFrontend
    /\ second = NoFrontend
    /\ powerlink = NoPowerLink
    /\ sends = 0
    /\ playlist_set = [p \in {DefaultPlaylist} |-> <<[page |-> HTMLPage, enabled |-> TRUE]>>]

\* the client sends a message on the power link
PowerReceive ==
    /\ powerlink.state = "Active" /\ powerlink.messages < MaxMessages
    /\ \E content \in Contents :
         /\ arg' = content
         /\ display' = receive_json(display, content)
    /\ powerlink' = [powerlink EXCEPT !.messages = @ + 1]
    /\ UNCHANGED <<dbvars, ret, svcvars, frontend, sends, playlist_set, second>>

NextLink ==
    \/ PowerConnect
    \/ PowerReceive
    \/ PowerDeliver
    \/ PowerDisconnect
    \/ SendPowerState

SpecLink == InitLink /\ [][NextLink]_vars

\* --------------------------------------------------------- link properties
\* the step is the handling of a client message; arg' is its content
ClientMessageHandled == powerlink'.messages = powerlink.messages + 1

\* C35: when the screenshot of a client message cannot be decoded, only the
\* screenshot update is skipped: the cached screenshot stays what it was, the
\* config the message carries is applied and the connection stays open.
C35_BadScreenshotIsSkipped ==
    [][(ClientMessageHandled /\ arg'.screen = "garbage") =>
          /\ display'.screenshot = display.screenshot
          /\ arg'.config # Absent => display'.config = arg'.config
          /\ powerlink'.state = "Active"]_vars

\* C38: a client message updates only the fields it carries: one without a
\* config leaves the stored config unchanged, one without a screenshot leaves
\* the cached screenshot unchanged, and no other column of the Display is
\* written.
C38_MessageUpdatesOnlyCarriedFields ==
    [][ClientMessageHandled =>
          /\ arg'.config = Absent => display'.config = display.config
          /\ arg'.screen = Absent => display'.screenshot = display.screenshot
          /\ display' = [display EXCEPT !.config = display'.config,
                                        !.screenshot = display'.screenshot]]_vars

\* ----------------------------------------------- two frontend connections
\* Two websocket connections to the frontend endpoint of the same Display,
\* each served by its own FrontendConsumer, while the operator may disable the
\* Display.
\* an enabled Display with a Schedule, not connected
FrontendDisplayRows ==
    { d \in DisplayRows : d.exists /\ d.enabled /\ d.schedule = pk }

InitFrontends ==
    /\ clock \in QueryInstants
    /\ ServiceDown
    /\ sdefault = DefaultPlaylist
    /\ scheduleitem_set \in ServiceScheduleRows
    /\ poweritem_set = {}
    /\ arg = localtime(0)
    /\ ret = NoCall
    /\ before = [items |-> scheduleitem_set, default |-> sdefault]
    /\ display \in FrontendDisplayRows
    /\ frontend = NoFrontend
    /\ second = NoFrontend
    /\ powerlink = NoPowerLink
    /\ sends = 0
    /\ playlist_set \in SessionPlaylists

\* FrontendConsumer.connect of the second connection, up to group_add
SecondConnect ==
    /\ second.state = "Connecting"
    /\ IF ~display.exists \/ ~display.enabled
       THEN /\ second' = [second EXCEPT !.state = "Closed", !.cause = "rejected"]
            /\ UNCHANGED display
       ELSE /\ display' = [display EXCEPT !.connected = clock]
            /\ second' = [second EXCEPT !.state = "Accepted",
                                        !.joined = (display.schedule # None)]
    /\ UNCHANGED <<dbvars, callvars, svcvars, frontend, powerlink, sends, playlist_set>>

\* FrontendConsumer.connect of the second connection, its last statement
SecondSendCurrent ==
    /\ second.state = "Accepted"
    /\ IF display.schedule = None
       THEN second' = raise(second)
       ELSE \E p \in get_active_playlist(scheduleitem_set, sdefault, utcnow(clock)) :
              LET m == Playlist_get_message(p)
              IN second' = IF m = ValidationError
                           THEN raise(second)
                           ELSE [second EXCEPT !.state = "Active",
                                   !.out = Append(@, [kind |-> "snapshot", playlist |-> p,
                                                      message |-> m])]
    /\ UNCHANGED <<dbvars, callvars, svcvars, display, frontend, powerlink, sends,
                   playlist_set>>

\* FrontendConsumer.disconnect of the second connection
SecondDisconnect ==
    /\ Disconnecting(second)
    /\ IF ~display.exists
       THEN /\ second' = [second EXCEPT !.closing = "error"]
            /\ UNCHANGED display
       ELSE /\ second' = disconnected(second)
            /\ display' = [display EXCEPT !.connected = None]
    /\ UNCHANGED <<dbvars, callvars, svcvars, frontend, powerlink, sends, playlist_set>>

\* The operator clears the enabled flag of the Display in the admin.
DisableDisplay ==
    /\ display.enabled
    /\ display' = [display EXCEPT !.enabled = FALSE]
    /\ UNCHANGED <<dbvars, callvars, svcvars, frontend, second, powerlink, sends,
                   playlist_set>>

NextFrontends ==
    \/ FrontendConnect
    \/ FrontendSendCurrent
    \/ FrontendDisconnect
    \/ SecondConnect
    \/ SecondSendCurrent
    \/ SecondDisconnect
    \/ DisableDisplay

SpecFrontends == InitFrontends /\ [][NextFrontends]_vars

\* the session has been accepted and has not ended
Open(sess) == sess.state \in {"Accepted", "Active"}

\* C37: the connection timestamp of the Display is non-null whenever at least
\* one accepted frontend session of it is still open, with several
\* connections of the same Display and with an attempt rejected after the
\* Display was disabled.
C37_TimestampSetWhileSessionOpen ==
    (Open(frontend) \/ Open(second)) => display.connected # None

\* ------------------------------------------------- cleanup specification
\* ScheduleTask.cleanup is a function of the ScheduleItem rows, the instant it
\* runs at and its interval: the initial states enumerate the rows and the
\* instant, the action runs the task.
\* the longest interval the task is given, in ticks
MaxInterval == 2

\* isodate.parse_duration(interval): a duration, which may be negative
Intervals == -1 .. MaxInterval

\* the instants the task runs at: from the middle of day 1 on, when the
\* ranges of the items begin to end
CleanupInstants == MidDay1 - 1 .. EndDay1 + MaxInterval

\* variant of fully_lt that compares the start of the range with the
\* threshold (range__startswith__lt)
fully_lt_start_only(s, threshold) == s.lower < threshold

\* range__fully_lt=threshold on a '[)' range with a bounded upper end: the
\* range lies strictly left of the threshold, taken as the point it names;
\* the upper end of the range is excluded
fully_lt(s, threshold) == s.upper <= threshold

\* the rows ScheduleTask.cleanup deletes:
\* exclude(range__endswith=None).filter(range__fully_lt=threshold)
cleanup(items, threshold) ==
    { si \in { s \in items : s.upper # None } : fully_lt(si, threshold) }

InitCleanup ==
    /\ clock \in CleanupInstants
    /\ ServiceDown
    /\ sdefault = DefaultPlaylist
    /\ arg \in [interval : Intervals]
    /\ ret = NoCall
    /\ \E a \in ScheduleItemsA :
         \/ scheduleitem_set = {a}
         \/ \E b \in ScheduleItemsB : scheduleitem_set = {a, b}
    /\ poweritem_set = {}
    /\ before = [items |-> scheduleitem_set, default |-> sdefault]
    /\ SessionsIdle

\* ScheduleTask.cleanup(interval): threshold = timezone.now() - interval,
\* every selected row is deleted
RunCleanup ==
    /\ ret = NoCall
    /\ LET threshold == clock - arg.interval
           deleted   == cleanup(scheduleitem_set, threshold)
       IN /\ ret' = [op |-> "cleanup", val |-> deleted]
          /\ scheduleitem_set' = scheduleitem_set \ deleted
    /\ UNCHANGED <<sdefault, poweritem_set, arg, svcvars, sessvars>>

NextCleanup == RunCleanup

SpecCleanup == InitCleanup /\ [][NextCleanup]_vars

\* ------------------------------------------------------ cleanup properties
\* the instants from now on that are examined, in both representations
InstantsFromNow ==
    { utcnow(t) : t \in clock .. Horizon } \cup { localtime(t) : t \in clock .. Horizon }

\* an item whose range is bounded above and has all its instants before t
EntirelyBefore(s, t) ==
    /\ s.upper # None
    /\ \A u \in 0 .. Horizon : range_contains(s, u) => u < t

====
